---- MODULE Spec2Model ----
(***************************************************************************)
(* The chunked-JSON result cursor of src/json_cursor.go as a state         *)
(* machine: a jsonCursor over a stream of JSON documents, the ResultSets   *)
(* and Series it has handed to the caller, and the three pull operations   *)
(* NextSet, NextSeries and NextRow.                                        *)
(*                                                                         *)
(* A document is the sequence of its "results"; a wire Result is a record  *)
(* [Series, Partial, Err]; a series entry is [Name, Values, Partial].  A   *)
(* row is an opaque value, a name an opaque string: both are numbers here. *)
(* An absent JSON field and its zero value are the same wire record (the   *)
(* server omits empty fields).                                             *)
(***************************************************************************)
EXTENDS Integers, Sequences, FiniteSets, TLC

\* Bounds of the streams the wire can carry.
MaxDocs == 2
MaxPerDoc == 2
MaxResults == 3
MaxSeries == 2
MaxEntries == 2
MaxRows == 1
\* Bounds of the chunked encodings of a response.
ChunkDocs == 3
ChunkResults == 3
ChunkEntries == 3
\* The handles the caller keeps: the newest ResultSets, and per ResultSet
\* the newest Series.
HeldSets == 2
HeldSeries == 2
\* Bounds of the bodies whose series entries carry any column list.
ColDocs == 2
ColResults == 2
ColEntries == 2
\* Bounds of the bodies whose first document carries two Results.
QueuedDocs == 2
QueuedEntries == 2
\* The longest column list Index is called on.
MaxColumns == 3
\* The longest format tag NewCursor is called with, in tokens.
MaxFormat == 3

Min(a, b) == IF a < b THEN a ELSE b

----------------------------------------------------------------------------
(* The response body.  The server writes it before the first call: a      *)
(* document, a Result of the last document, a series entry of the last     *)
(* Result.  Rows are numbered in wire order; an entry that follows a        *)
(* partial entry continues it and repeats its name.                         *)

RECURSIVE Sum(_)
Sum(q) == IF q = <<>> THEN 0 ELSE Head(q) + Sum(Tail(q))

RECURSIVE Flatten(_)
Flatten(docs) == IF docs = <<>> THEN <<>> ELSE Head(docs) \o Flatten(Tail(docs))

Last(q) == q[Len(q)]

\* The series entries of the Results rs, in wire order.
AllSeries(rs) == Flatten([i \in 1..Len(rs) |-> rs[i].Series])

\* The column lists a series entry carries: none, or some names.
ColumnLists == {<<>>, <<"time", "value">>, <<"host">>}

\* The rank of a tag key of the model in the order Go compares strings.
KeyRank(k) ==
  LET TagKeys == <<"dc", "host", "region">>
  IN CHOOSE i \in 1..Len(TagKeys) : TagKeys[i] = k

\* A map[string]string is the set of its <<key, value>> pairs, one pair for
\* a key; a nil map and an empty one are both the empty set.

\* Tags.Less, Tags.Swap
Less(a, i, j) == KeyRank(a[i].Key) < KeyRank(a[j].Key)

Swap(a, i, j) == [a EXCEPT ![i] = a[j], ![j] = a[i]]

\* sort.Sort on a short slice, an insertion sort by Less and Swap: the
\* element at j sinks to its place, for every j from i on.
RECURSIVE Sink(_, _)
Sink(a, j) == IF j > 1 /\ Less(a, j, j - 1) THEN Sink(Swap(a, j, j - 1), j - 1) ELSE a

RECURSIVE SortFrom(_, _)
SortFrom(a, i) == IF i > Len(a) THEN a ELSE SortFrom(Sink(a, i), i + 1)

\* for k, v := range v.Tags: the pairs of the map in any order.
RangeOrders(m) ==
  {s \in [1..Cardinality(m) -> m] : \A i, j \in 1..Cardinality(m) : i # j => s[i] # s[j]}

\* Lines 261-269: the Tags of an entry whose map was ranged in the order s;
\* nil for an empty map.
TagsOf(m, s) ==
  LET tags == [i \in 1..Len(s) |-> [Key |-> s[i][1], Value |-> s[i][2]]]
  IN IF m = {} THEN <<>> ELSE SortFrom(tags, 2)

NewEntry(docs, n, partial, cols) ==
  LET es == AllSeries(Flatten(docs))
      rows == Sum([i \in 1..Len(es) |-> Len(es[i].Values)])
      done == Cardinality({i \in 1..Len(es) : ~es[i].Partial})
  IN [Name |-> done + 1, Values |-> [i \in 1..n |-> rows + i], Partial |-> partial,
      Columns |-> cols, Tags |-> {}]

\* The size of a body: documents, Results in a document, Results, entries
\* in a Result, entries.
Within(docs, nd, nr, ne) ==
  /\ Len(docs) <= nd
  /\ \A d \in 1..Len(docs) : Len(docs[d]) <= MaxPerDoc
  /\ Len(Flatten(docs)) <= nr
  /\ \A i \in 1..Len(Flatten(docs)) : Len(Flatten(docs)[i].Series) <= MaxSeries
  /\ Len(AllSeries(Flatten(docs))) <= ne

\* What every part of a chunked encoding of a response satisfies: no
\* Result has failed, only the last Result of a document can be partial,
\* only the last entry of a Result can be partial, and then the Result is
\* partial too.
Chunked(docs) ==
  /\ \A d \in 1..Len(docs) : \A i \in 1..(Len(docs[d]) - 1) : ~docs[d][i].Partial
  /\ \A i \in 1..Len(Flatten(docs)) :
       LET r == Flatten(docs)[i]
           n == Len(r.Series)
       IN /\ r.Err = ""
          /\ \A j \in 1..(n - 1) : ~r.Series[j].Partial
          /\ (n > 0 /\ r.Series[n].Partial) => r.Partial

\* A document that carries a partial Result of one partial entry and the
\* Result that ends it, of at most one entry; and the documents after it,
\* of one Result each, the last of them with any entries.
Queued(docs) ==
  /\ Len(docs) <= QueuedDocs
  /\ docs # <<>> =>
       LET d == docs[1]
       IN /\ Len(d) <= 2
          /\ \A i \in 1..Len(d) : d[i].Err = "" /\ Len(d[i].Series) <= 1
          /\ d # <<>> => d[1].Partial /\ \A j \in 1..Len(d[1].Series) : d[1].Series[j].Partial
          /\ Len(d) = 2 => ~d[2].Partial /\ \A j \in 1..Len(d[2].Series) : ~d[2].Series[j].Partial
  /\ \A i \in 2..Len(docs) :
       Len(docs[i]) <= 1 /\ \A j \in 1..Len(docs[i]) : Len(docs[i][j].Series) <= QueuedEntries

----------------------------------------------------------------------------
VARIABLES
  stream,   \* the documents the decoder has not read yet
  buf,      \* c.buf.Results: the queue of decoded Results
  spare,    \* the Results left behind c.buf.Results in the slice's capacity
  cur,      \* c.cur
  sets,     \* the ResultSets the caller holds, newest last
  ret,      \* the last call and what it returned
  full,     \* the caller has iterated in full so far
  level,    \* where a full iteration stands
  trace,    \* what a full iteration has returned so far
  expect,   \* what iterating the logical response returns
  nsets,    \* the number of ResultSets NextSet has returned
  family    \* the bodies the server writes: "rows" or "columns"

cursor == <<stream, buf, spare, cur, sets, ret, full, level, trace, expect, nsets, family>>

\* The bodies of the model.  When the rows are looked at: any body up to the
\* Max bounds, a chunked one up to the Chunk bounds, every entry with the
\* same columns.  When the columns are: any body up to the Col bounds.
Fits(docs) ==
  IF family = "rows"
  THEN \/ Within(docs, MaxDocs, MaxResults, MaxEntries)
       \/ Within(docs, ChunkDocs, ChunkResults, ChunkEntries) /\ Chunked(docs)
  ELSE IF family = "queued"
  THEN Queued(docs)
  ELSE Within(docs, ColDocs, ColResults, ColEntries)

\* The column lists of the entries the server writes.
EntryColumns == IF family \in {"rows", "each", "queued"} THEN {<<"time", "value">>} ELSE ColumnLists

NilCur == [kind |-> "nil", Partial |-> FALSE]
TmpCur(p) == [kind |-> "tmp", Partial |-> p]
SetCur == [kind |-> "set", Partial |-> FALSE]

\* The cursor and the caller's handles as one value.
World == [stream |-> stream, buf |-> buf, spare |-> spare, cur |-> cur, sets |-> sets]

\* What an operation leaves and returns: the error ("" for nil), the message
\* of an ErrResult, and the name or row returned.
Ok(w) == [w |-> w, err |-> "", msg |-> "", val |-> 0]
Fail(w, e) == [w |-> w, err |-> e, msg |-> "", val |-> 0]
FailMsg(w, e, m) == [w |-> w, err |-> e, msg |-> m, val |-> 0]

----------------------------------------------------------------------------
(* encoding/json decodes a document into the existing c.buf: the slots of *)
(* the slice that hold a Result are decoded into (a field the document      *)
(* carries replaces the old one, an absent field keeps it), further         *)
(* Results are fresh, and slots beyond the document stay in the capacity.   *)

\* A "tags" object is decoded into the map the slot holds: the keys it
\* carries are set, the other keys of the map stay.
MergeTags(old, new) ==
  IF new = {} THEN old ELSE {p \in old : \A q \in new : q[1] # p[1]} \cup new

MergeEntry(old, new) ==
  [Name |-> new.Name,
   Values |-> IF new.Values = <<>> THEN old.Values ELSE new.Values,
   Partial |-> old.Partial \/ new.Partial,
   Columns |-> IF new.Columns = <<>> THEN old.Columns ELSE new.Columns,
   Tags |-> MergeTags(old.Tags, new.Tags)]

MergeResult(old, new) ==
  [Series |-> IF new.Series = <<>> THEN old.Series
              ELSE [i \in 1..Len(new.Series) |->
                      IF i <= Len(old.Series) THEN MergeEntry(old.Series[i], new.Series[i])
                      ELSE new.Series[i]],
   Partial |-> old.Partial \/ new.Partial,
   Err |-> IF new.Err = "" THEN old.Err ELSE new.Err]

\* c.dec.Decode(&c.buf)
Decode(w) ==
  IF w.stream = <<>> THEN Fail(w, "EOF")
  ELSE LET d == Head(w.stream)
           slots == w.buf \o w.spare
       IN Ok([w EXCEPT !.stream = Tail(@),
                       !.buf = [i \in 1..Len(d) |->
                                  IF i <= Len(slots) THEN MergeResult(slots[i], d[i]) ELSE d[i]],
                       !.spare = IF Len(d) = 0 THEN <<>>
                                 ELSE SubSeq(slots, Len(d) + 1, Len(slots))])

\* for len(c.buf.Results) == 0 { Decode }
RECURSIVE Fill(_)
Fill(w) ==
  LET Again(o) == IF o.err # "" THEN o ELSE Fill(o.w)
  IN IF w.buf # <<>> THEN Ok(w) ELSE Again(Decode(w))

\* An end of the stream that is reported as it is.
EOFStays(o) == o

\* if err == io.EOF { err = io.ErrUnexpectedEOF }
EOFIsUnexpected(o) == IF o.err = "EOF" THEN Fail(o.w, "UEOF") ELSE o

----------------------------------------------------------------------------
(* jsonCursor.NextSet                                                      *)

\* c.cur.Partial, c.cur being a ResultSet the caller holds or a Result the
\* caller never got (a failed one, or one taken while skipping).
CurPartial(w) == IF w.cur.kind = "set" THEN Last(w.sets).Partial ELSE w.cur.Partial

\* A NextSet that leaves the old ResultSet attached to the cursor.
DetachNot(w) == w

\* c.cur.cur = nil
Detach(w) ==
  IF w.cur.kind = "set" THEN [w EXCEPT !.sets[Len(w.sets)].cur = FALSE] ELSE w

\* c.cur = c.buf.Results[0]; c.buf.Results = c.buf.Results[1:]
Skip(w) == [w EXCEPT !.cur = TmpCur(w.buf[1].Partial), !.buf = Tail(@)]

\* A drain that passes over one Result only.
DrainOne(w) ==
  LET Move(o) == IF o.err # "" THEN o ELSE Ok([Skip(o.w) EXCEPT !.cur = TmpCur(FALSE)])
  IN IF ~CurPartial(w) THEN Ok(w) ELSE Move(EOFIsUnexpected(Fill(w)))

\* for c.cur.Partial { fill; c.cur = Results[0]; Results = Results[1:] }
RECURSIVE Drain(_)
Drain(w) ==
  LET Move(o) == IF o.err # "" THEN o ELSE Drain(Skip(o.w))
  IN IF ~CurPartial(w) THEN Ok(w) ELSE Move(EOFIsUnexpected(Fill(w)))

\* The jsonResult NextSet returns for the Result it took from the queue.
NewResult(head) ==
  [Series |-> head.Series, Partial |-> head.Partial, index |-> 0,
   cur |-> head.Partial, series |-> FALSE, held |-> <<>>, left |-> FALSE,
   columns |-> IF Len(head.Series) > 0 THEN head.Series[1].Columns ELSE <<>>]

KeepSets(q) == IF Len(q) > HeldSets THEN Tail(q) ELSE q

\* jsonResult.Columns
Columns(r) == r.columns

\* jsonSeries.Columns, of a series of the ResultSet r: s.r.Columns()
SeriesColumns(r) == Columns(r)

\* A NextSet that does not look at the error string of the Result.
TakeSetNoErr(w) ==
  Ok([w EXCEPT !.buf = Tail(@), !.cur = SetCur,
               !.sets = KeepSets(Append(@, NewResult(w.buf[1])))])

\* Lines 62-80: take the first Result of the queue as the current one.
TakeSet(w) ==
  LET head == w.buf[1]
  IN IF head.Err # ""
     THEN FailMsg([w EXCEPT !.cur = TmpCur(head.Partial)], "ErrResult", head.Err)
     ELSE Ok([w EXCEPT !.buf = Tail(@), !.cur = SetCur,
                       !.sets = KeepSets(Append(@, NewResult(head)))])

NextSetOp(w) ==
  LET Take(o) == IF o.err # "" THEN o ELSE TakeSet(o.w)
      Fetch(o) == IF o.err # "" THEN o ELSE Take(Fill([o.w EXCEPT !.cur = NilCur]))
  IN Fetch(IF w.cur.kind = "nil" THEN Ok(w) ELSE Drain(Detach(w)))

----------------------------------------------------------------------------
(* jsonResult.NextSeries                                                   *)

\* A copy of the next Result that takes its columns too.
CopyResultColumns(w, k) ==
  IF w.buf = <<>> THEN Fail(w, "panic")
  ELSE LET result == w.buf[1]
       IN IF result.Err # "" THEN FailMsg(w, "ErrResult", result.Err)
          ELSE Ok([w EXCEPT !.buf = Tail(@),
                            !.sets[k].Series = result.Series,
                            !.sets[k].Partial = result.Partial,
                            !.sets[k].index = 0,
                            !.sets[k].columns = IF Len(result.Series) > 0
                                                THEN result.Series[1].Columns ELSE @])

\* A copy of the next Result that keeps the index of the old series array.
CopyResultKeepIndex(w, k) ==
  IF w.buf = <<>> THEN Fail(w, "panic")
  ELSE LET result == w.buf[1]
       IN IF result.Err # "" THEN FailMsg(w, "ErrResult", result.Err)
          ELSE Ok([w EXCEPT !.buf = Tail(@),
                            !.sets[k].Series = result.Series,
                            !.sets[k].Partial = result.Partial])

\* "Copy the state of the next result into the current result": the first
\* Result of the queue, which is a fault when the queue is empty.
CopyResult(w, k) ==
  IF w.buf = <<>> THEN Fail(w, "panic")
  ELSE LET result == w.buf[1]
       IN IF result.Err # "" THEN FailMsg(w, "ErrResult", result.Err)
          ELSE Ok([w EXCEPT !.buf = Tail(@),
                            !.sets[k].Series = result.Series,
                            !.sets[k].Partial = result.Partial,
                            !.sets[k].index = 0])

\* Take the next Result over the ResultSet k, after the fill loop
\* (NextSeries) or after the one Decode of NextRow.
Advance(w, k, once) ==
  LET Copy(o) == IF o.err # "" THEN o ELSE CopyResult(o.w, k)
  IN Copy(EOFIsUnexpected(IF once THEN Decode(w) ELSE Fill(w)))

\* A loop that reports the end of a result that is not partial as io.EOF,
\* whatever the series.
RECURSIVE RefillEOF(_, _, _, _)
RefillEOF(w, k, once, atEnd) ==
  LET r == w.sets[k]
      Again(o) == IF o.err # "" THEN o ELSE RefillEOF(o.w, k, once, atEnd)
  IN IF r.index < Len(r.Series) THEN Ok(w)
     ELSE IF ~r.Partial THEN Fail(w, "EOF")
     ELSE IF ~r.cur THEN Fail(w, "UEOF")
     ELSE Again(Advance(w, k, once))

\* A loop that looks at the cursor of the ResultSet before it looks at its
\* partial flag.
RECURSIVE RefillDetachedFirst(_, _, _, _)
RefillDetachedFirst(w, k, once, atEnd) ==
  LET r == w.sets[k]
      Again(o) == IF o.err # "" THEN o ELSE RefillDetachedFirst(o.w, k, once, atEnd)
  IN IF r.index < Len(r.Series) THEN Ok(w)
     ELSE IF ~r.cur THEN Fail(w, "UEOF")
     ELSE IF ~r.Partial THEN Fail(w, atEnd)
     ELSE Again(Advance(w, k, once))

\* for r.index >= len(r.Series) { ...; take the next Result }
RECURSIVE Refill(_, _, _, _)
Refill(w, k, once, atEnd) ==
  LET r == w.sets[k]
      Again(o) == IF o.err # "" THEN o ELSE Refill(o.w, k, once, atEnd)
  IN IF r.index < Len(r.Series) THEN Ok(w)
     ELSE IF ~r.Partial THEN Fail(w, atEnd)
     ELSE IF ~r.cur THEN Fail(w, "UEOF")
     ELSE Again(Advance(w, k, once))

\* r.index++
Step(w, k) == [w EXCEPT !.sets[k].index = @ + 1]

\* The loop that skips the rest of a partial series.
RECURSIVE SkipPartial(_, _)
SkipPartial(w, k) ==
  LET Look(o) ==
        IF o.err # "" THEN o
        ELSE IF ~o.w.sets[k].Series[o.w.sets[k].index + 1].Partial THEN Ok(o.w)
        ELSE SkipPartial(Step(o.w, k), k)
  IN Look(Refill(w, k, FALSE, "Truncated"))

\* A NextSeries that does not invalidate the series it leaves.
InvalidateNot(w, k) == [w EXCEPT !.sets[k].series = FALSE]

\* r.series.invalid = true; r.series = nil
Invalidate(w, k) ==
  [w EXCEPT !.sets[k].held[Len(w.sets[k].held)].invalid = TRUE,
            !.sets[k].series = FALSE]

\* Lines 165-223: leave the current series behind.
LeaveSeries(w, k) ==
  LET Past(o) == IF o.err # "" THEN o ELSE Ok(Step(o.w, k))
      Mark(o) == IF o.err # "" THEN o ELSE Ok(Invalidate(o.w, k))
  IN IF ~w.sets[k].series THEN Ok(w)
     ELSE Mark(IF Last(w.sets[k].held).partial THEN Past(SkipPartial(w, k)) ELSE Ok(w))

\* The jsonSeries NextSeries returns for the entry v.
NewSeries(v) ==
  [name |-> v.Name, sz |-> Len(v.Values), values |-> v.Values,
   partial |-> v.Partial, invalid |-> FALSE, nret |-> 0, chunk |-> v,
   tags |-> TagsOf(v.Tags, CHOOSE s \in RangeOrders(v.Tags) : TRUE)]

KeepSeries(q) == IF Len(q) > HeldSeries THEN Tail(q) ELSE q

\* Lines 257-279: the series of the entry at the index.
TakeSeries(w, k) ==
  LET v == w.sets[k].Series[w.sets[k].index + 1]
  IN [Ok([Step(w, k) EXCEPT !.sets[k].series = TRUE,
                            !.sets[k].held = KeepSeries(Append(@, NewSeries(v)))])
        EXCEPT !.val = v.Name]

NextSeriesOp(w, k) ==
  LET Take(o) == IF o.err # "" THEN o ELSE TakeSeries(o.w, k)
      Fetch(o) == IF o.err # "" THEN o ELSE Take(Refill(o.w, k, FALSE, "EOF"))
  IN Fetch(LeaveSeries(w, k))

----------------------------------------------------------------------------
(* jsonSeries.NextRow on the series j of the ResultSet k                   *)

\* A NextRow that counts the rows of the last chunk only.
LoadChunkLast(w, k, j) ==
  LET v == w.sets[k].Series[w.sets[k].index + 1]
  IN [Step(w, k) EXCEPT !.sets[k].held[j].values = v.Values,
                        !.sets[k].held[j].sz = Len(v.Values),
                        !.sets[k].held[j].partial = v.Partial,
                        !.sets[k].held[j].chunk = v]

\* Lines 348-353: the entry at the index continues the series.
LoadChunk(w, k, j) ==
  LET v == w.sets[k].Series[w.sets[k].index + 1]
  IN [Step(w, k) EXCEPT !.sets[k].held[j].values = v.Values,
                        !.sets[k].held[j].sz = @ + Len(v.Values),
                        !.sets[k].held[j].partial = v.Partial,
                        !.sets[k].held[j].chunk = v]

\* for len(s.values) == 0 { ... }
RECURSIVE LoadRows(_, _, _)
LoadRows(w, k, j) ==
  LET s == w.sets[k].held[j]
      Load(o) == IF o.err # "" THEN o ELSE LoadRows(LoadChunk(o.w, k, j), k, j)
  IN IF s.values # <<>> THEN Ok(w)
     ELSE IF ~s.partial THEN Fail(w, "EOF")
     ELSE IF s.invalid THEN Fail(w, "UEOF")
     ELSE Load(Refill(w, k, TRUE, "Truncated"))

\* v := s.values[0]; s.values = s.values[1:]
TakeRow(w, k, j) ==
  [Ok([w EXCEPT !.sets[k].held[j].values = Tail(@),
                !.sets[k].held[j].nret = @ + 1])
     EXCEPT !.val = Head(w.sets[k].held[j].values)]

NextRowOp(w, k, j) ==
  LET Take(o) == IF o.err # "" THEN o ELSE TakeRow(o.w, k, j)
  IN Take(LoadRows(w, k, j))

----------------------------------------------------------------------------
(* The logical response a chunked stream encodes, and what iterating it    *)
(* in full returns.                                                        *)

\* A partial entry is continued by the entry that follows it.
RECURSIVE JoinEntries(_)
JoinEntries(es) ==
  IF es = <<>> THEN <<>>
  ELSE LET e == Head(es)
           t == JoinEntries(Tail(es))
       IN IF e.Partial /\ t # <<>>
          THEN <<[Name |-> e.Name, Values |-> e.Values \o Head(t).Values]>> \o Tail(t)
          ELSE <<[Name |-> e.Name, Values |-> e.Values]>> \o t

\* A partial Result is continued by the Result that follows it.
RECURSIVE JoinResults(_)
JoinResults(rs) ==
  IF rs = <<>> THEN <<>>
  ELSE LET t == JoinResults(Tail(rs))
       IN IF Head(rs).Partial /\ t # <<>>
          THEN <<Head(rs).Series \o Head(t)>> \o Tail(t)
          ELSE <<Head(rs).Series>> \o t

Unchunk(docs) ==
  LET rs == JoinResults(Flatten(docs))
  IN [i \in 1..Len(rs) |-> JoinEntries(rs[i])]

RECURSIVE FlatRows(_)
FlatRows(vs) == IF vs = <<>> THEN <<>> ELSE <<<<"row", Head(vs)>>>> \o FlatRows(Tail(vs))

RECURSIVE FlatSeries(_)
FlatSeries(ss) ==
  IF ss = <<>> THEN <<>>
  ELSE <<<<"series", Head(ss).Name>>>> \o FlatRows(Head(ss).Values) \o <<<<"eos">>>>
       \o FlatSeries(Tail(ss))

RECURSIVE FlatResults(_)
FlatResults(rs) ==
  IF rs = <<>> THEN <<<<"eof">>>>
  ELSE <<<<"set">>>> \o FlatSeries(Head(rs)) \o <<<<"eor">>>> \o FlatResults(Tail(rs))

\* A body the server makes by cutting a response between two rows of a
\* series or between two series of a result: every piece is a document, the
\* piece before a cut is marked partial (the result, and the series when the
\* cut is inside it), and no result has failed.
WellFormed(docs) ==
  LET rs == Flatten(docs)
  IN /\ Chunked(docs)
     /\ \A d \in 1..Len(docs) : docs[d] # <<>>
     /\ rs # <<>>
     /\ ~rs[Len(rs)].Partial
     /\ \A i \in 1..Len(rs) :
          (rs[i].Series # <<>> /\ Last(rs[i].Series).Partial) => rs[i + 1].Series # <<>>

\* What iterating the response returns when the body is a chunked encoding
\* of one; empty when it is not.
Logical(docs) == IF WellFormed(docs) THEN FlatResults(Unchunk(docs)) ELSE <<>>

----------------------------------------------------------------------------
(* jsonResult.Index on one ResultSet                                       *)

VARIABLES
  columns,        \* r.columns
  columnsByName,  \* r.columnsByName
  closed,         \* the io.ReadCloser of the response body has been closed
  call,           \* the last call outside the cursor and what it returned
  sink            \* what has been written to the io.Writer of Encode

\* What the cursor's operations leave alone.
aside == <<columns, columnsByName, closed, call, sink>>

vars == <<cursor, aside>>

ColumnNames == {"time", "value", "host"}

\* A nil map, and make(map[string]int).
NilMap == [nil |-> TRUE, m |-> <<>>]
EmptyMap == [nil |-> FALSE, m |-> <<>>]

\* r.columnsByName[s] = i
Put(byName, s, i) ==
  [byName EXCEPT !.m = [n \in DOMAIN byName.m \cup {s} |-> IF n = s THEN i ELSE byName.m[n]]]

\* for i := len(r.columnsByName); i < len(r.columns); i++ { ... }, i counted
\* from 0; -1 when the loop ends.
RECURSIVE Scan(_, _, _, _)
Scan(cols, byName, i, name) ==
  IF i >= Len(cols) THEN [byName |-> byName, val |-> -1]
  ELSE IF name = cols[i + 1] THEN [byName |-> Put(byName, cols[i + 1], i), val |-> i]
  ELSE Scan(cols, Put(byName, cols[i + 1], i), i + 1, name)

\* jsonResult.Index
IndexOp(cols, byName, name) ==
  IF Len(cols) = 0 THEN [byName |-> byName, val |-> -1]
  ELSE IF ~byName.nil /\ name \in DOMAIN byName.m THEN [byName |-> byName, val |-> byName.m[name]]
  ELSE LET made == IF byName.nil THEN EmptyMap ELSE byName
       IN Scan(cols, made, Cardinality(DOMAIN made.m), name)

NoCall == [op |-> "", arg |-> "", val |-> 0, tick |-> FALSE]

----------------------------------------------------------------------------
(* jsonRow.ValueByName and jsonRow.Time on a row of one ResultSet           *)

MaxRowLen == 2

\* A decoded JSON value (interface{}): nil for null, a string, a float64, a
\* bool.  A float64 is counted in halves, so that it may have a fraction.
NilValue == [kind |-> "nil", text |-> "", num |-> 0]

RowValues ==
  LET StringValue(t) == [kind |-> "string", text |-> t, num |-> 0]
      FloatValue(h) == [kind |-> "float64", text |-> "", num |-> h]
      BoolValue == [kind |-> "bool", text |-> "", num |-> 1]
  IN {NilValue, BoolValue, FloatValue(3), FloatValue(-3), FloatValue(0),
      StringValue("1970-01-01T00:00:00Z"), StringValue("1970-01-01T00:00:00.000000005Z"),
      StringValue("yesterday")}

\* The rows of a body: any values, as many as the body carries.
Rows == UNION {[1..n -> RowValues] : n \in 0..MaxRowLen}

\* time.Time{}, a time by its Unix nanoseconds, and an index out of range.
ZeroTime == [kind |-> "zero", text |-> "", num |-> 0]
UnixTime(ns) == [kind |-> "time", text |-> "", num |-> ns]
Panic == [kind |-> "panic", text |-> "", num |-> 0]

\* time.Parse(time.RFC3339Nano, v), the error dropped.
Parse(text) ==
  CASE text = "1970-01-01T00:00:00Z" -> UnixTime(0)
    [] text = "1970-01-01T00:00:00.000000005Z" -> UnixTime(5)
    [] OTHER -> ZeroTime

\* Lines 370-388: the time of the value v of the "time" column; int64(v)
\* of a float64 of h halves drops the fraction.
TimeOf(v) ==
  LET Int64(h) == IF h >= 0 THEN h \div 2 ELSE -((-h) \div 2)
  IN
  CASE v.kind = "nil" -> ZeroTime
    [] v.kind = "panic" -> Panic
    [] v.kind = "string" -> Parse(v.text)
    [] v.kind = "float64" -> UnixTime(Int64(v.num))
    [] OTHER -> ZeroTime

\* jsonRow.ValueByName
ValueByNameOp(cols, byName, values, column) ==
  LET Value(o) == [byName |-> o.byName,
                   val |-> IF o.val = -1 THEN NilValue
                           ELSE IF o.val >= Len(values) THEN Panic
                           ELSE values[o.val + 1]]
  IN Value(IndexOp(cols, byName, column))

\* jsonRow.Time
TimeOp(cols, byName, values) ==
  LET Switch(o) == [byName |-> o.byName, val |-> TimeOf(o.val)]
  IN Switch(ValueByNameOp(cols, byName, values, "time"))

\* No ResultSet is looked at.
Idle ==
  /\ columns = <<>>
  /\ columnsByName = NilMap
  /\ closed = FALSE
  /\ call = NoCall
  /\ sink = <<>>

----------------------------------------------------------------------------
(* NewCursor                                                               *)

\* A format tag is a string; here the sequence of its tokens.
FormatTokens == {"json", "application/", "JSON", "x-"}

Formats == UNION {[1..n -> FormatTokens] : n \in 0..MaxFormat}

\* A NewCursor that takes any tag ending in json.
NewCursorAnyJSON(format) ==
  IF format # <<>> /\ Last(format) = "json"
  THEN [cursor |-> TRUE, err |-> "", Format |-> <<>>]
  ELSE [cursor |-> FALSE, err |-> "ErrUnknownFormat", Format |-> format]

\* NewCursor: the cursor (newJSONCursor(r)) or the error it returns.
NewCursorOp(format) ==
  IF format \in {<<"json">>, <<"application/", "json">>}
  THEN [cursor |-> TRUE, err |-> "", Format |-> <<>>]
  ELSE [cursor |-> FALSE, err |-> "ErrUnknownFormat", Format |-> format]

----------------------------------------------------------------------------
(* int64 and time.Time.  An integer is its sign and its magnitude in three *)
(* limbs, g * 10^18 + s * 10^9 + n; an int64 is such an integer from        *)
(* MinInt64 to MaxInt64.  A time is the integer of its nanoseconds since    *)
(* the Unix epoch, which need not fit an int64.                            *)

Giga == 1000000000

Limbs(neg, g, s, n) == [neg |-> neg /\ g + s + n > 0, g |-> g, s |-> s, n |-> n]

\* An integer below 10^9 in magnitude.
Small(k) == IF k < 0 THEN Limbs(TRUE, 0, 0, -k) ELSE Limbs(FALSE, 0, 0, k)

MinInt64 == Limbs(TRUE, 9, 223372036, 854775808)
MaxInt64 == Limbs(FALSE, 9, 223372036, 854775807)

Less64(a, b) ==
  LET MagLess(x, y) ==
        \/ x.g < y.g
        \/ x.g = y.g /\ x.s < y.s
        \/ x.g = y.g /\ x.s = y.s /\ x.n < y.n
  IN IF a.neg # b.neg THEN a.neg
     ELSE IF a.neg THEN MagLess(b, a) ELSE MagLess(a, b)

\* The int64 an integer wraps to: 2^64 is taken from an integer above
\* MaxInt64 and added to one below MinInt64, until it fits.
RECURSIVE Wrap64(_)
Wrap64(z) ==
  LET Modulus == [g |-> 18, s |-> 446744073, n |-> 709551616]
      Inside == IF z.neg THEN Less64(Limbs(TRUE, Modulus.g, Modulus.s, Modulus.n), z)
                ELSE Less64(z, Limbs(FALSE, Modulus.g, Modulus.s, Modulus.n))
      \* a - b for magnitudes with b <= a
      MagSub(a, b) ==
        LET n == a.n - b.n
            s == a.s - b.s - (IF n < 0 THEN 1 ELSE 0)
        IN [g |-> a.g - b.g - (IF s < 0 THEN 1 ELSE 0), s |-> s % Giga, n |-> n % Giga]
      Signed(neg, m) == Limbs(neg, m.g, m.s, m.n)
      Moved == IF Inside THEN Signed(~z.neg, MagSub(Modulus, z))
               ELSE Signed(z.neg, MagSub(z, Modulus))
  IN IF Less64(MaxInt64, z) \/ Less64(z, MinInt64) THEN Wrap64(Moved) ELSE z

\* The int64 division z / f of Go, which truncates toward zero, by a factor
\* f that is 1, 10^3, 10^6 (the quotient of the limbs by d) or a multiple
\* c * 10^9 (the quotient of the upper limbs by c).
Quo64(z, f) ==
  LET QuoSmall(d) ==
        LET m == Giga \div d
        IN Limbs(z.neg, z.g \div d, (z.g % d) * m + z.s \div d, (z.s % d) * m + z.n \div d)
      QuoGiga(c) ==
        LET r == z.g % c
        IN Limbs(z.neg, 0, z.g \div c, r * (Giga \div c) + (r * (Giga % c) + z.s) \div c)
  IN IF f.s = 0 THEN QuoSmall(f.n) ELSE QuoGiga(f.s)

DigitChars == <<"0", "1", "2", "3", "4", "5", "6", "7", "8", "9">>

\* The decimal digits of k >= 0, and its last w digits.
RECURSIVE Digits(_)
Digits(k) ==
  IF k < 10 THEN <<DigitChars[k + 1]>> ELSE Digits(k \div 10) \o <<DigitChars[(k % 10) + 1]>>

RECURSIVE Padded(_, _)
Padded(k, w) ==
  IF w = 0 THEN <<>> ELSE Padded(k \div 10, w - 1) \o <<DigitChars[(k % 10) + 1]>>

\* strconv.FormatInt(z, 10)
FormatInt(z) ==
  (IF z.neg THEN <<"-">> ELSE <<>>)
  \o (IF z.g > 0 THEN Digits(z.g) \o Padded(z.s, 9) \o Padded(z.n, 9)
      ELSE IF z.s > 0 THEN Digits(z.s) \o Padded(z.n, 9)
      ELSE Digits(z.n))

\* time.Time{} is the first instant of the year 1, and an instant is a
\* count of nanoseconds since the Unix epoch.
ZeroInstant == Limbs(TRUE, 62, 135596800, 0)

IsZero(t) == t = ZeroInstant

\* t.UnixNano(): the nanoseconds since the epoch as an int64.
UnixNano(t) == Wrap64(t)

----------------------------------------------------------------------------
(* The line protocol of src/protocol.go.  A Go string is the sequence of  *)
(* its characters.                                                          *)

\* strings.Replace(in, s, esc, -1) for a one-character s
RECURSIVE Replace(_, _, _)
Replace(in, s, esc) ==
  IF in = <<>> THEN <<>>
  ELSE (IF Head(in) = s THEN esc ELSE <<Head(in)>>) \o Replace(Tail(in), s, esc)

measurementEscapeCodes ==
  <<[s |-> ",", esc |-> <<"\\", ",">>], [s |-> " ", esc |-> <<"\\", " ">>]>>

tagEscapeCodes ==
  <<[s |-> ",", esc |-> <<"\\", ",">>], [s |-> " ", esc |-> <<"\\", " ">>],
    [s |-> "=", esc |-> <<"\\", "=">>]>>

\* A table that escapes the quote before the backslash.
stringEscapeCodesQuoteFirst ==
  <<[s |-> "\"", esc |-> <<"\\", "\"">>], [s |-> "\\", esc |-> <<"\\", "\\">>]>>

stringEscapeCodes ==
  <<[s |-> "\\", esc |-> <<"\\", "\\">>], [s |-> "\"", esc |-> <<"\\", "\"">>]>>

\* for _, c := range codes { in = strings.Replace(in, c.s, c.esc, -1) }
RECURSIVE escape(_, _)
escape(in, codes) ==
  IF codes = <<>> THEN in
  ELSE escape(Replace(in, Head(codes).s, Head(codes).esc), Tail(codes))

escapeMeasurement(in) == escape(in, measurementEscapeCodes)
escapeTag(in) == escape(in, tagEscapeCodes)
escapeString(in) == escape(in, stringEscapeCodes)

\* A field value (interface{}): a float64 from 1 to 10 in magnitude, counted
\* in units of 10^-7; a string; a bool; a uint64, which formatValue does not
\* know; and an int64, an int32 or an int, which is the integer int.
Field(kind, text, num) == [kind |-> kind, text |-> text, num |-> num, int |-> Small(0)]

IntField(kind, z) == [kind |-> kind, text |-> <<>>, num |-> 0, int |-> z]

\* The digits of a fraction without its trailing zeros.
RECURSIVE Trimmed(_)
Trimmed(ds) == IF ds # <<>> /\ ds[Len(ds)] = "0" THEN Trimmed(SubSeq(ds, 1, Len(ds) - 1)) ELSE ds

\* strconv.FormatFloat(v, 'g', 6, 64) for 1 <= |v| < 10: six significant
\* digits, the last one rounded, no trailing zeros.
FormatFloat(u) ==
  LET a == IF u < 0 THEN -u ELSE u
      r == (a + 50) \div 100
      frac == Trimmed(Padded(r % 100000, 5))
  IN (IF u < 0 THEN <<"-">> ELSE <<>>)
     \o Digits(r \div 100000)
     \o (IF frac = <<>> THEN <<>> ELSE <<".">> \o frac)

\* formatValue of lines 127-149: strconv.FormatInt(v, 64) panics, its base
\* is above 36; strconv.Itoa does not.
formatValueEarlier(v) ==
  CASE v.kind = "float64" -> [value |-> FormatFloat(v.num), err |-> ""]
    [] v.kind \in {"int64", "int32"} -> [value |-> <<>>, err |-> "panic"]
    [] v.kind = "int" -> [value |-> FormatInt(v.int) \o <<"i">>, err |-> ""]
    [] v.kind = "string" -> [value |-> <<"\"">> \o escapeString(v.text) \o <<"\"">>, err |-> ""]
    [] v.kind = "bool" -> [value |-> IF v.num = 1 THEN <<"t", "r", "u", "e">>
                                     ELSE <<"f", "a", "l", "s", "e">>,
                           err |-> ""]
    [] OTHER -> [value |-> <<>>, err |-> "invalid field type"]

\* formatValue of lines 308-330
formatValue(v) ==
  CASE v.kind = "float64" -> [value |-> FormatFloat(v.num), err |-> ""]
    [] v.kind \in {"int64", "int32", "int"} -> [value |-> FormatInt(v.int) \o <<"i">>, err |-> ""]
    [] v.kind = "string" -> [value |-> <<"\"">> \o escapeString(v.text) \o <<"\"">>, err |-> ""]
    [] v.kind = "bool" -> [value |-> IF v.num = 1 THEN <<"t", "r", "u", "e">>
                                     ELSE <<"f", "a", "l", "s", "e">>,
                           err |-> ""]
    [] OTHER -> [value |-> <<>>, err |-> "invalid field type"]

\* time.Nanosecond .. time.Hour
Nanosecond == Small(1)
Microsecond == Small(1000)
Millisecond == Small(1000000)
Second == Limbs(FALSE, 0, 1, 0)
Minute == Limbs(FALSE, 0, 60, 0)
Hour == Limbs(FALSE, 0, 3600, 0)

\* The precisions of precision.go, the empty one, and an unknown one.
Precisions == {"", "ns", "u", "ms", "s", "m", "h", "d"}

\* A switch whose microseconds are milliseconds.
precisionFactorMilli(precision) ==
  CASE precision = "h" -> Hour
    [] precision = "m" -> Minute
    [] precision = "s" -> Second
    [] precision = "ms" -> Millisecond
    [] precision = "u" -> Millisecond
    [] OTHER -> Nanosecond

\* Lines 204-220
precisionFactor(precision) ==
  CASE precision = "h" -> Hour
    [] precision = "m" -> Minute
    [] precision = "s" -> Second
    [] precision = "ms" -> Millisecond
    [] precision = "u" -> Microsecond
    [] OTHER -> Nanosecond

\* Tags written once for a key: a tag whose key a later tag has is left out.
RECURSIVE WriteTagsUnique(_)
WriteTagsUnique(tags) ==
  IF tags = <<>> THEN <<>>
  ELSE (IF \E i \in 2..Len(tags) : tags[i].Key = Head(tags).Key THEN <<>>
        ELSE <<",">> \o escapeTag(Head(tags).Key) \o <<"=">> \o escapeTag(Head(tags).Value))
       \o WriteTagsUnique(Tail(tags))

\* Lines 223-230: the tags in the order of the slice.
RECURSIVE WriteTags(_)
WriteTags(tags) ==
  IF tags = <<>> THEN <<>>
  ELSE <<",">> \o escapeTag(Head(tags).Key) \o <<"=">> \o escapeTag(Head(tags).Value)
       \o WriteTags(Tail(tags))

\* Lines 233-247: the fields from the i-th on, in the order the map is
\* ranged in; what is written, and the error that ends it.
RECURSIVE WriteFields(_, _)
WriteFields(order, i) ==
  IF i > Len(order) THEN [text |-> <<>>, err |-> ""]
  ELSE LET key == (IF i > 1 THEN <<",">> ELSE <<>>) \o escapeString(order[i][1]) \o <<"=">>
           Rest(f, o) == [text |-> key \o f.value \o o.text, err |-> o.err]
           Value(f) == IF f.err # "" THEN [text |-> key, err |-> f.err]
                       ELSE Rest(f, WriteFields(order, i + 1))
       IN Value(formatValue(order[i][2]))

\* Lines 248-252
WriteTime(pt, precision) ==
  IF ~IsZero(pt.Time)
  THEN <<" ">> \o FormatInt(Quo64(UnixNano(pt.Time), precisionFactor(precision)))
  ELSE <<>>

\* An Encode that looks at the fields after it has written the name.
EncodeNameFirst(w, pt, precision, order) ==
  IF pt.Fields = {} THEN [w |-> w \o escapeMeasurement(pt.Name), err |-> "ErrNoFields"]
  ELSE [w |-> w \o escapeMeasurement(pt.Name) \o <<" ">> \o WriteFields(order, 1).text
                \o <<"\n">>,
        err |-> WriteFields(order, 1).err]

\* lineProtocolV1.Encode of pt into w, the fields ranged in the given order.
EncodeOp(w, pt, precision, order) ==
  LET Line(b) ==
        LET start == w \o escapeMeasurement(pt.Name) \o WriteTags(pt.Tags) \o <<" ">> \o b.text
        IN IF b.err # "" THEN [w |-> start, err |-> b.err]
           ELSE [w |-> start \o WriteTime(pt, precision) \o <<"\n">>, err |-> ""]
  IN IF pt.Fields = {} THEN [w |-> w, err |-> "ErrNoFields"]
     ELSE Line(WriteFields(order, 1))

\* lineProtocolV1.Encode of lines 37-72: the formatValue of lines 127-149,
\* and the timestamp in nanoseconds.
EncodeEarlierOp(w, pt, order) ==
  LET RECURSIVE Fields(_)
      Fields(i) ==
        IF i > Len(order) THEN [text |-> <<>>, err |-> ""]
        ELSE LET key == (IF i > 1 THEN <<",">> ELSE <<>>) \o escapeString(order[i][1]) \o <<"=">>
                 Rest(f, o) == [text |-> key \o f.value \o o.text, err |-> o.err]
                 Value(f) == IF f.err # "" THEN [text |-> key, err |-> f.err]
                             ELSE Rest(f, Fields(i + 1))
             IN Value(formatValueEarlier(order[i][2]))
      Line(b) ==
        LET start == w \o escapeMeasurement(pt.Name) \o WriteTags(pt.Tags) \o <<" ">> \o b.text
        IN IF b.err # "" THEN [w |-> start, err |-> b.err]
           ELSE [w |-> start
                       \o (IF ~IsZero(pt.Time) THEN <<" ">> \o FormatInt(UnixNano(pt.Time)) ELSE <<>>)
                       \o <<"\n">>,
                 err |-> ""]
  IN IF pt.Fields = {} THEN [w |-> w, err |-> "ErrNoFields"]
     ELSE Line(Fields(1))

\* writer.WritePoint of writer.go: the points are encoded into the
\* io.Writer one after the other, up to the first that fails.
PointWriterOp(w, pts, orders) ==
  LET RECURSIVE From(_, _)
      From(out, i) ==
        IF i > Len(pts) THEN [w |-> out, err |-> ""]
        ELSE LET Then(o) == IF o.err # "" THEN o ELSE From(o.w, i + 1)
             IN Then(EncodeEarlierOp(out, pts[i], orders[i]))
  IN From(w, 1)

\* What the server, or the connection to it, does with a request; or no
\* request, when http.NewRequest cannot parse the address of the Client.
Statuses == {"2xx", "4xx partial write", "4xx", "5xx", "no response", "no request"}

\* A Write that takes a partial write for a write that failed.
WriteOpPartialFails(data, precision, status) ==
  LET Sent(n, err) == [n |-> n, err |-> err, sent |-> <<[precision |-> precision, body |-> data]>>]
  IN CASE data = <<>> -> [n |-> 0, err |-> "", sent |-> <<>>]
       [] data # <<>> /\ status = "no request" -> [n |-> 0, err |-> "NewRequest", sent |-> <<>>]
       [] data # <<>> /\ status = "no response" -> Sent(0, "Do")
       [] data # <<>> /\ status = "2xx" -> Sent(Len(data), "")
       [] data # <<>> /\ status = "4xx partial write" -> Sent(0, "ErrPartialWrite")
       [] OTHER -> Sent(0, "ReadError")

\* A Write whose request has no precision in its query.
WriteOpNoPrecision(data, precision, status) ==
  LET Sent(n, err) == [n |-> n, err |-> err, sent |-> <<[precision |-> "", body |-> data]>>]
  IN CASE data = <<>> -> [n |-> 0, err |-> "", sent |-> <<>>]
       [] data # <<>> /\ status = "no request" -> [n |-> 0, err |-> "NewRequest", sent |-> <<>>]
       [] data # <<>> /\ status = "no response" -> Sent(0, "Do")
       [] data # <<>> /\ status = "2xx" -> Sent(Len(data), "")
       [] data # <<>> /\ status = "4xx partial write" -> Sent(Len(data), "ErrPartialWrite")
       [] OTHER -> Sent(0, "ReadError")

\* Writer.Write: no request for no data; else one request whose query
\* holds the precision that is not empty (here "" for no parameter) and
\* whose body is the data.
WriteOp(data, precision, status) ==
  LET Sent(n, err) == [n |-> n, err |-> err, sent |-> <<[precision |-> precision, body |-> data]>>]
  IN CASE data = <<>> -> [n |-> 0, err |-> "", sent |-> <<>>]
       [] data # <<>> /\ status = "no request" -> [n |-> 0, err |-> "NewRequest", sent |-> <<>>]
       [] data # <<>> /\ status = "no response" -> Sent(0, "Do")
       [] data # <<>> /\ status = "2xx" -> Sent(Len(data), "")
       [] data # <<>> /\ status = "4xx partial write" -> Sent(Len(data), "ErrPartialWrite")
       [] OTHER -> Sent(0, "ReadError")

\* Writer.WritePoint
WritePointOp(pt, precision, order, status) ==
  LET Send(o) == IF o.err # "" THEN [n |-> 0, err |-> o.err, sent |-> <<>>]
                 ELSE WriteOp(o.w, precision, status)
  IN Send(EncodeOp(<<>>, pt, precision, order))

\* Writer.WriteBatch
WriteBatchOp(pts, precision, orders, status) ==
  LET RECURSIVE From(_, _)
      From(b, i) ==
        IF i > Len(pts) THEN [w |-> b, err |-> ""]
        ELSE LET Then(o) == IF o.err # "" THEN o ELSE From(o.w, i + 1)
             IN Then(EncodeOp(b, pts[i], precision, orders[i]))
      Send(o) == IF o.err # "" THEN [n |-> 0, err |-> o.err, sent |-> <<>>]
                 ELSE WriteOp(o.w, precision, status)
  IN Send(From(<<>>, 1))

\* A SetTime that takes 0 for the time that is not set.
SetTimeEpoch(timestamp) == IF ~IsZero(timestamp) THEN UnixNano(timestamp) ELSE Small(0)

\* Point.SetTime: the Time of the point after it.
SetTimeOp(timestamp) == IF ~IsZero(timestamp) THEN UnixNano(timestamp) ELSE MinInt64

\* Point.HasTimeSet
HasTimeSet(p) == p.Time # MinInt64

MaxPoints == 2

MaxBatch == 2

\* The calls of a callback up to which it can end the loop.
MaxCalls == 2

\* The helpers called on one response.
MaxHelpers == 1

MaxWrites == 1

\* The callers that run Encode at the same time.
MaxCallers == 2

\* The longest string that is escaped, in characters.
MaxText == 3

\* The longest data Write is called with, in bytes.
MaxData == 2

\* The calls of a Querier, and the options of one call.
MaxQueries == 2
MaxOpts == 2

\* The points of the model.  When the line is looked at: names, tags and
\* field keys with the characters the protocol gives a meaning, tags out of
\* order and a tag key twice, every kind of field value, no time or a time.
\* When the timestamp is: one name, any time.  When a batch is written: one
\* name, no field, a field, a field that only one formatValue formats and a
\* field that none does.
\* The Unix epoch and times around it; the first and the last time whose
\* nanoseconds fit an int64, and the nanosecond after the last.
Instants ==
  IF family = "lines"
  THEN {ZeroInstant, Limbs(FALSE, 0, 10, 0)}
  ELSE IF family \in {"batch", "callers"}
  THEN {ZeroInstant, Limbs(FALSE, 0, 7322, 500000000)}
  ELSE {ZeroInstant, Small(0), Small(1), Small(-1), Small(1999),
        Limbs(FALSE, 0, 10, 0), Limbs(FALSE, 0, 1, 500000000), Limbs(TRUE, 0, 1, 500000000),
        Limbs(FALSE, 0, 59, 999999999), Limbs(FALSE, 0, 7322, 1234), Limbs(TRUE, 0, 3600, 1),
        MinInt64, MaxInt64, Limbs(FALSE, 9, 223372036, 854775808)}

PointPrecisions == IF family \in {"lines", "callers"} THEN {"", "s"} ELSE Precisions

\* The precisions of the Writer that writes a batch.
BatchPrecisions == {"", "s", "d"}

\* The data Write is called with.
Datas == UNION {[1..n -> {"a", "\n"}] : n \in 0..MaxData}

Points ==
  LET PointNames ==
        IF family = "lines"
        THEN {<<"c">>, <<"c", "\\">>, <<"c", " ">>, <<"c", ",", "k", "=", "v">>}
        ELSE {<<"c">>}
      PointTags ==
        IF family = "lines"
        THEN {<<>>, <<[Key |-> <<"k">>, Value |-> <<"v">>]>>,
              <<[Key |-> <<"k", " ">>, Value |-> <<"v", ",">>]>>,
              <<[Key |-> <<"k">>, Value |-> <<"v">>], [Key |-> <<"a">>, Value |-> <<"w">>],
                [Key |-> <<"k">>, Value |-> <<"x">>]>>}
        ELSE IF family = "callers"
        THEN {<<>>, <<[Key |-> <<"k">>, Value |-> <<"v", " ">>]>>}
        ELSE {<<>>}
      PointFields ==
        IF family = "lines"
        THEN {{},
              {<<<<"f">>, Field("float64", <<>>, 10000000)>>},
              {<<<<"f">>, Field("float64", <<>>, 10000001)>>},
              {<<<<"f">>, IntField("int64", Small(1))>>},
              {<<<<"f">>, Field("string", <<"a", "\"">>, 0)>>},
              {<<<<"f">>, Field("bool", <<>>, 1)>>},
              {<<<<"f">>, Field("uint64", <<>>, 1)>>},
              {<<<<"f">>, Field("float64", <<>>, 10000000)>>, <<<<"g">>, Field("float64", <<>>, 25000000)>>},
              {<<<<"f", "=", "1", ",", "g">>, Field("float64", <<>>, 25000000)>>},
              {<<<<"f">>, Field("float64", <<>>, 10000000)>>, <<<<"g">>, Field("uint64", <<>>, 1)>>}}
        ELSE IF family = "callers"
        THEN {{},
              {<<<<"f">>, Field("float64", <<>>, 10000000)>>, <<<<"g">>, Field("bool", <<>>, 1)>>},
              {<<<<"f">>, Field("float64", <<>>, 10000000)>>, <<<<"g">>, Field("uint64", <<>>, 1)>>}}
        ELSE IF family = "batch"
        THEN {{}, {<<<<"v">>, Field("float64", <<>>, 50000000)>>},
              {<<<<"v">>, IntField("int64", Small(1))>>}, {<<<<"v">>, Field("uint64", <<>>, 1)>>}}
        ELSE {{}, {<<<<"v">>, Field("float64", <<>>, 50000000)>>}}
  IN {[Name |-> name, Tags |-> tags, Fields |-> fields, Time |-> time] :
        name \in PointNames, tags \in PointTags, fields \in PointFields, time \in Instants}

NoPoint == [Name |-> <<>>, Tags |-> <<>>, Fields |-> {}, Time |-> ZeroInstant]

\* The batches of points, and the orders their field maps are ranged in.
Batches == UNION {[1..k -> Points] : k \in 0..MaxBatch}

OrdersOf(pts) ==
  {os \in [1..Len(pts) -> UNION {RangeOrders(pt.Fields) : pt \in Points}] :
     \A i \in 1..Len(pts) : os[i] \in RangeOrders(pts[i].Fields)}

\* No call yet: n counts the calls, start is the length of the sink before
\* the call, Time the Time of the Point that SetTime was called on.
NoEncode ==
  [op |-> "", arg |-> [pt |-> NoPoint, precision |-> "", order |-> <<>>, timestamp |-> ZeroInstant],
   val |-> [err |-> "", Time |-> MinInt64, start |-> 0], n |-> 0, tick |-> FALSE]

----------------------------------------------------------------------------
(* The state machine.                                                      *)

\* No call yet.  tick tells a call from the call before it.
NoRet == [op |-> "", k |-> 0, j |-> 0, err |-> "", msg |-> "", val |-> 0, tick |-> FALSE]

\* newJSONCursor, nothing written to the body yet.
Start ==
  /\ stream = <<>>
  /\ buf = <<>>
  /\ spare = <<>>
  /\ cur = NilCur
  /\ sets = <<>>
  /\ ret = NoRet
  /\ full = TRUE
  /\ level = "cursor"
  /\ trace = <<>>
  /\ expect = <<>>
  /\ nsets = 0

Init == Start /\ Idle /\ family = "rows"

InitColumns == Start /\ Idle /\ family = "columns"

InitQueued == Start /\ Idle /\ family = "queued"

\* The tags the server keeps for the series of a name.
ServerTags == <<{}, {<<"host", "a">>, <<"dc", "x">>}>>

\* Bodies of two documents: a chunk of one partial entry and a Result of
\* one or two entries, then a Result of one or two entries.
TagBodies ==
  LET TagEntry(name, partial) ==
        [Name |-> name, Values |-> <<name>>, Partial |-> partial,
         Columns |-> <<"time", "value">>, Tags |-> ServerTags[name]]
      TagEntries == {TagEntry(name, partial) : name \in 1..Len(ServerTags), partial \in BOOLEAN}
      TagResults ==
        {[Series |-> es, Partial |-> partial, Err |-> ""] :
           es \in [1..1 -> TagEntries] \cup [1..2 -> TagEntries], partial \in BOOLEAN}
      TagChunks ==
        {[Series |-> <<TagEntry(name, TRUE)>>, Partial |-> TRUE, Err |-> ""] :
           name \in 1..Len(ServerTags)}
  IN {<<<<c, r>>, <<q>>>> : c \in TagChunks, r \in TagResults, q \in TagResults}

\* A tagged body, nothing read from it.
InitTags ==
  /\ stream \in TagBodies
  /\ buf = <<>>
  /\ spare = <<>>
  /\ cur = NilCur
  /\ sets = <<>>
  /\ ret = NoRet
  /\ full = TRUE
  /\ level = "cursor"
  /\ trace = <<>>
  /\ expect = <<>>
  /\ nsets = 0
  /\ family = "tags"
  /\ Idle

\* The body is whole before the caller's first call.
Unread == ret.op = ""

Send(docs) ==
  /\ Fits(docs)
  /\ stream' = docs
  /\ UNCHANGED <<buf, spare, cur, sets, ret, full, level, trace, expect, nsets, family>>
  /\ UNCHANGED aside

\* The server starts a document.
SendDocument ==
  /\ Unread
  /\ Send(Append(stream, <<>>))

\* The server writes a Result into the document.
SendResult ==
  /\ Unread
  /\ stream # <<>>
  /\ \E partial \in BOOLEAN : \E err \in {"", "boom"} :
       Send([stream EXCEPT ![Len(stream)] =
               Append(@, [Series |-> <<>>, Partial |-> partial, Err |-> err])])

\* The server writes a series entry into the Result.
SendSeries ==
  /\ Unread
  /\ stream # <<>>
  /\ Last(stream) # <<>>
  /\ Last(Last(stream)).Err = ""
  /\ \E n \in 0..MaxRows : \E partial \in BOOLEAN : \E cols \in EntryColumns :
       Send([stream EXCEPT ![Len(stream)][Len(Last(stream))].Series =
               Append(@, NewEntry(stream, n, partial, cols))])

\* A full iteration of a chunked encoding calls NextRow on the newest series
\* until it ends, then NextSeries on the newest ResultSet until it ends,
\* then NextSet.
InOrder(op, k, j) ==
  /\ full
  /\ ~Unread \/ WellFormed(stream)
  /\ \/ op = "NextSet" /\ level = "cursor"
     \/ op = "NextSeries" /\ level = "set" /\ k = Len(sets)
     \/ op = "NextRow" /\ level = "series" /\ k = Len(sets) /\ j = Len(sets[k].held)

Token(op, o) ==
  IF o.err = "" THEN (CASE op = "NextSet" -> <<"set">>
                        [] op = "NextSeries" -> <<"series", o.val>>
                        [] OTHER -> <<"row", o.val>>)
  ELSE IF o.err = "EOF" THEN (CASE op = "NextSet" -> <<"eof">>
                                [] op = "NextSeries" -> <<"eor">>
                                [] OTHER -> <<"eos">>)
  ELSE <<"err", o.err>>

LevelAfter(op, o) ==
  IF o.err = "" THEN (CASE op = "NextSet" -> "set" [] OTHER -> "series")
  ELSE IF o.err = "EOF" THEN (CASE op = "NextSet" -> "done"
                                [] op = "NextSeries" -> "cursor"
                                [] OTHER -> "set")
  ELSE "done"

\* The call op has ended as o.
Return(op, k, j, o) ==
  /\ stream' = o.w.stream
  /\ buf' = o.w.buf
  /\ spare' = o.w.spare
  /\ cur' = o.w.cur
  /\ sets' = o.w.sets
  /\ ret' = [op |-> op, k |-> k, j |-> j, err |-> o.err, msg |-> o.msg, val |-> o.val,
             tick |-> ~ret.tick]
  /\ full' = InOrder(op, k, j)
  /\ level' = IF InOrder(op, k, j) THEN LevelAfter(op, o) ELSE "free"
  /\ trace' = IF InOrder(op, k, j) THEN Append(trace, Token(op, o)) ELSE <<>>
  /\ nsets' = IF op = "NextSet" /\ o.err = "" THEN nsets + 1 ELSE nsets
  /\ expect' = IF Unread THEN Logical(stream) ELSE expect
  /\ UNCHANGED family
  /\ UNCHANGED aside

\* A panic ends the program.
Running == ret.err # "panic"

\* left records, for the claims, that NextSet was called after the ResultSet
\* was returned.
Leave(w) == [w EXCEPT !.sets = [i \in 1..Len(w.sets) |-> [w.sets[i] EXCEPT !.left = TRUE]]]

NextSet ==
  /\ Running
  /\ Return("NextSet", 0, 0, NextSetOp(Leave(World)))

NextSeries ==
  /\ Running
  /\ \E k \in 1..Len(sets) : Return("NextSeries", k, 0, NextSeriesOp(World, k))

NextRow ==
  /\ Running
  /\ \E k \in 1..Len(sets) : \E j \in 1..Len(sets[k].held) :
       Return("NextRow", k, j, NextRowOp(World, k, j))

Next == SendDocument \/ SendResult \/ SendSeries \/ NextSet \/ NextSeries \/ NextRow

Spec == Init /\ [][Next]_vars

\* The same cursor over bodies whose first document carries two Results.
SpecQueued == InitQueued /\ [][Next]_vars

\* The same cursor over bodies whose entries carry any column list.
SpecColumns == InitColumns /\ [][Next]_vars

NextTags == NextSet \/ NextSeries \/ NextRow

\* The cursor over tagged bodies.
SpecTags == InitTags /\ [][NextTags]_vars

\* A ResultSet NextSet has returned, with any column list, no lookup made.
InitIndex ==
  /\ Start
  /\ family = "rows"
  /\ columns \in UNION {[1..n -> ColumnNames] : n \in 0..MaxColumns}
  /\ columnsByName = NilMap
  /\ closed = FALSE
  /\ call = NoCall
  /\ sink = <<>>

Index ==
  \E name \in ColumnNames :
    LET o == IndexOp(columns, columnsByName, name)
    IN /\ columnsByName' = o.byName
       /\ call' = [op |-> "Index", arg |-> name, val |-> o.val, tick |-> ~call.tick]
       /\ UNCHANGED <<columns, closed, cursor, sink>>

NextIndex == Index

SpecIndex == InitIndex /\ [][NextIndex]_vars

\* A ResultSet NextSet has returned, with any column list, and no row looked
\* at.
InitTime ==
  /\ Start
  /\ family = "rows"
  /\ columns \in UNION {[1..n -> ColumnNames] : n \in 0..MaxColumns}
  /\ columnsByName = NilMap
  /\ closed = FALSE
  /\ call = [op |-> "", arg |-> <<>>, name |-> "", val |-> NilValue, tick |-> FALSE]
  /\ sink = <<>>

\* row.ValueByName(column) on a row of the ResultSet.
ValueByName ==
  /\ call.val.kind # "panic"
  /\ \E values \in Rows : \E column \in ColumnNames :
       LET o == ValueByNameOp(columns, columnsByName, values, column)
       IN /\ columnsByName' = o.byName
          /\ call' = [op |-> "ValueByName", arg |-> values, name |-> column, val |-> o.val,
                      tick |-> ~call.tick]
          /\ UNCHANGED <<columns, closed, cursor, sink>>

\* row.Time() on a row of the ResultSet.
Time ==
  /\ call.val.kind # "panic"
  /\ \E values \in Rows :
       LET o == TimeOp(columns, columnsByName, values)
       IN /\ columnsByName' = o.byName
          /\ call' = [op |-> "Time", arg |-> values, name |-> "time", val |-> o.val,
                      tick |-> ~call.tick]
          /\ UNCHANGED <<columns, closed, cursor, sink>>

NextTime == ValueByName \/ Time

SpecTime == InitTime /\ [][NextTime]_vars

\* An empty io.Writer and no point encoded.
InitEncode ==
  /\ Start
  /\ family = "lines"
  /\ columns = <<>>
  /\ columnsByName = NilMap
  /\ closed = FALSE
  /\ call = NoEncode
  /\ sink = <<>>

InitStamp ==
  /\ Start
  /\ family = "stamps"
  /\ columns = <<>>
  /\ columnsByName = NilMap
  /\ closed = FALSE
  /\ call = NoEncode
  /\ sink = <<>>

\* Encode(w, pt, opt) on the same writer as the call before.
Encode ==
  /\ call.n < MaxPoints
  /\ \E pt \in Points : \E precision \in PointPrecisions : \E order \in RangeOrders(pt.Fields) :
       LET o == EncodeOp(sink, pt, precision, order)
       IN /\ sink' = o.w
          /\ call' = [op |-> "Encode",
                      arg |-> [pt |-> pt, precision |-> precision, order |-> order,
                               timestamp |-> pt.Time],
                      val |-> [err |-> o.err, Time |-> MinInt64, start |-> Len(sink)],
                      n |-> call.n + 1, tick |-> ~call.tick]
          /\ UNCHANGED <<columns, columnsByName, closed, cursor>>

\* pt.SetTime(timestamp)
SetTime ==
  /\ call.n < MaxPoints
  /\ \E timestamp \in Instants :
       /\ call' = [op |-> "SetTime",
                   arg |-> [pt |-> NoPoint, precision |-> "", order |-> <<>>,
                            timestamp |-> timestamp],
                   val |-> [err |-> "", Time |-> SetTimeOp(timestamp), start |-> Len(sink)],
                   n |-> call.n + 1, tick |-> ~call.tick]
       /\ UNCHANGED <<columns, columnsByName, closed, cursor, sink>>

NextEncode == Encode

SpecEncode == InitEncode /\ [][NextEncode]_vars

NextStamp == Encode \/ SetTime

SpecStamp == InitStamp /\ [][NextStamp]_vars

\* A Writer and a writer, nothing written.
InitWriter ==
  /\ Start
  /\ family = "batch"
  /\ columns = <<>>
  /\ columnsByName = NilMap
  /\ closed = FALSE
  /\ call = [op |-> "", arg |-> [pts |-> <<>>, precision |-> "", orders |-> <<>>, status |-> "",
                                  data |-> <<>>],
             val |-> [n |-> 0, err |-> "", sent |-> <<>>, start |-> 0], n |-> 0, tick |-> FALSE]
  /\ sink = <<>>

\* The call of a Writer with the Precision precision that returns o.
Wrote(op, pts, precision, orders, status, o) ==
  /\ call' = [op |-> op,
              arg |-> [pts |-> pts, precision |-> precision, orders |-> orders, status |-> status,
                       data |-> <<>>],
              val |-> [n |-> o.n, err |-> o.err, sent |-> o.sent, start |-> Len(sink)],
              n |-> call.n + 1, tick |-> ~call.tick]
  /\ UNCHANGED <<columns, columnsByName, closed, cursor, sink>>

\* w.WritePoint(pt)
WritePoint ==
  /\ call.n < MaxWrites
  /\ \E pt \in Points : \E precision \in PointPrecisions : \E status \in Statuses :
       \E order \in RangeOrders(pt.Fields) :
         Wrote("WritePoint", <<pt>>, precision, <<order>>, status,
               WritePointOp(pt, precision, order, status))

\* w.WriteBatch(pts)
WriteBatch ==
  /\ call.n < MaxWrites
  /\ \E pts \in Batches : \E precision \in BatchPrecisions : \E status \in Statuses :
       \E orders \in OrdersOf(pts) :
         Wrote("WriteBatch", pts, precision, orders, status,
               WriteBatchOp(pts, precision, orders, status))

\* The WritePoint(pts...) of the writer of writer.go on its io.Writer.
PointWriter ==
  /\ call.n < MaxPoints
  /\ \E pts \in Batches : \E orders \in OrdersOf(pts) :
       LET o == PointWriterOp(sink, pts, orders)
       IN /\ sink' = o.w
          /\ call' = [op |-> "writer.WritePoint",
                      arg |-> [pts |-> pts, precision |-> "", orders |-> orders, status |-> "",
                               data |-> <<>>],
                      val |-> [n |-> 0, err |-> o.err, sent |-> <<>>, start |-> Len(sink)],
                      n |-> call.n + 1, tick |-> ~call.tick]
          /\ UNCHANGED <<columns, columnsByName, closed, cursor>>

\* w.Write(data)
Write ==
  /\ call.n < MaxWrites
  /\ \E data \in Datas : \E precision \in BatchPrecisions : \E status \in Statuses :
       LET o == WriteOp(data, precision, status)
       IN /\ call' = [op |-> "Write",
                      arg |-> [pts |-> <<>>, precision |-> precision, orders |-> <<>>,
                               status |-> status, data |-> data],
                      val |-> [n |-> o.n, err |-> o.err, sent |-> o.sent, start |-> Len(sink)],
                      n |-> call.n + 1, tick |-> ~call.tick]
          /\ UNCHANGED <<columns, columnsByName, closed, cursor, sink>>

NextWriter == WritePoint \/ WriteBatch \/ PointWriter \/ Write

SpecWriter == InitWriter /\ [][NextWriter]_vars

----------------------------------------------------------------------------
(* EachResult, EachSeries, EachRow and Querier.Execute                     *)

\* The Next* call of a helper: NextSet on the cursor, NextSeries on the
\* ResultSet k, NextRow on its series j.
NextOf(each, w, k, j) ==
  CASE each = "EachResult" -> NextSetOp(Leave(w))
    [] each = "EachSeries" -> NextSeriesOp(w, k)
    [] OTHER -> NextRowOp(w, k, j)

\* The pull loop of a helper: Next* is called until it returns io.EOF,
\* which ends the loop with nil, or another error, which is returned; fn
\* is called with every item, and its ErrStop ends the loop with nil, any
\* other error of it is returned.  fn replies plan.reply to its call
\* number plan.at and nil to the others; the log is the calls made.
RECURSIVE EachOp(_, _, _, _, _, _)
EachOp(each, w, k, j, plan, log) ==
  LET n == Cardinality({i \in 1..Len(log) : log[i].e = "fn"})
      End(o, err, l) == [w |-> o.w, err |-> err, msg |-> o.msg, val |-> 0, log |-> l]
      Fn(o, reply) ==
        LET l == log \o <<[e |-> "next", r |-> "", item |-> o.val],
                          [e |-> "fn", r |-> reply, item |-> o.val]>>
        IN IF reply = "" THEN EachOp(each, o.w, k, j, plan, l)
           ELSE End(o, IF reply = "ErrStop" THEN "" ELSE reply, l)
      Got(o) ==
        IF o.err # ""
        THEN End(o, IF o.err = "EOF" THEN "" ELSE o.err,
                 Append(log, [e |-> "next", r |-> o.err, item |-> 0]))
        ELSE Fn(o, IF n + 1 = plan.at THEN plan.reply ELSE "")
  IN Got(NextOf(each, w, k, j))

\* A callback that returns nil to every call.
NoStop == [at |-> 0, reply |-> ""]

\* Querier.Execute on the response of the server: the error of Do, of the
\* status, of NewCursor, or what EachResult returns.
ExecuteOp(w, response) ==
  LET none == [w |-> w, err |-> "", msg |-> "", val |-> 0, log |-> <<>>]
  IN CASE response.status = "no response" -> [none EXCEPT !.err = "Do"]
       [] response.status = "5xx" -> [none EXCEPT !.err = "ReadError"]
       [] response.status = "2xx" /\ NewCursorOp(response.format).err # "" ->
            [none EXCEPT !.err = NewCursorOp(response.format).err]
       [] OTHER -> EachOp("EachResult", w, 0, 0, NoStop, <<>>)

\* The callbacks: one that returns nil to every call, and those that return
\* ErrStop or an error of their own to one call.
Plans ==
  {NoStop} \cup {[at |-> at, reply |-> reply] : at \in 1..MaxCalls, reply \in {"ErrStop", "failed"}}

\* What comes back for the request of Execute.
Responses ==
  {[status |-> "no response", format |-> <<>>], [status |-> "5xx", format |-> <<"json">>],
   [status |-> "2xx", format |-> <<"x-">>], [status |-> "2xx", format |-> <<"application/", "json">>]}

\* A response body, nothing read from it, and no helper called.
InitEach ==
  /\ Start
  /\ family = "each"
  /\ columns = <<>>
  /\ columnsByName = NilMap
  /\ closed = FALSE
  /\ call = [op |-> "", plan |-> NoStop, log |-> <<>>, body |-> <<>>, status |-> "", n |-> 0]
  /\ sink = <<>>

\* The helper or Execute has ended as o.
Called(op, k, j, plan, status, o) ==
  /\ stream' = o.w.stream
  /\ buf' = o.w.buf
  /\ spare' = o.w.spare
  /\ cur' = o.w.cur
  /\ sets' = o.w.sets
  /\ ret' = [op |-> op, k |-> k, j |-> j, err |-> o.err, msg |-> o.msg, val |-> 0,
             tick |-> ~ret.tick]
  /\ full' = FALSE
  /\ level' = "free"
  /\ trace' = <<>>
  /\ expect' = IF Unread THEN Logical(stream) ELSE expect
  /\ call.n < MaxHelpers
  /\ call' = [op |-> op, plan |-> plan, log |-> o.log, body |-> stream, status |-> status,
              n |-> call.n + 1]
  /\ UNCHANGED <<nsets, family, columns, columnsByName, closed, sink>>

\* EachResult(cur, fn)
EachResult ==
  /\ Running
  /\ \E plan \in Plans :
       Called("EachResult", 0, 0, plan, "", EachOp("EachResult", World, 0, 0, plan, <<>>))

\* EachSeries(r, fn) on a ResultSet the caller holds
EachSeries ==
  /\ Running
  /\ \E k \in 1..Len(sets) : \E plan \in Plans :
       Called("EachSeries", k, 0, plan, "", EachOp("EachSeries", World, k, 0, plan, <<>>))

\* EachRow(s, fn) on a series the caller holds
EachRow ==
  /\ Running
  /\ \E k \in 1..Len(sets) : \E j \in 1..Len(sets[k].held) : \E plan \in Plans :
       Called("EachRow", k, j, plan, "", EachOp("EachRow", World, k, j, plan, <<>>))

\* q.Execute(query): the response has not been read.
Execute ==
  /\ Unread
  /\ \E response \in Responses :
       Called("Execute", 0, 0, NoStop, response.status, ExecuteOp(World, response))

\* The caller gets the handles a helper is called on, then calls one.
NextEach ==
  \/ SendDocument \/ SendResult \/ SendSeries
  \/ (call.n < MaxHelpers /\ NextSet)
  \/ (call.n < MaxHelpers /\ NextSeries)
  \/ EachResult \/ EachSeries \/ EachRow \/ Execute

SpecEach == InitEach /\ [][NextEach]_vars

----------------------------------------------------------------------------
(* Encode run by several callers at once                                   *)

\* The io.WriteString calls of one Encode, in the order it makes them, and
\* the error it returns after them.
WriteSteps(pt, precision, order) ==
  LET RECURSIVE TagSteps(_)
      TagSteps(tags) ==
        IF tags = <<>> THEN <<>>
        ELSE <<<<",">>, escapeTag(Head(tags).Key), <<"=">>, escapeTag(Head(tags).Value)>>
             \o TagSteps(Tail(tags))
      RECURSIVE FieldSteps(_)
      FieldSteps(i) ==
        IF i > Len(order) THEN [steps |-> <<>>, err |-> ""]
        ELSE LET key == (IF i > 1 THEN <<<<",">>>> ELSE <<>>)
                        \o <<escapeString(order[i][1]), <<"=">>>>
                 Rest(f, o) == [steps |-> key \o <<f.value>> \o o.steps, err |-> o.err]
                 Value(f) == IF f.err # "" THEN [steps |-> key, err |-> f.err]
                             ELSE Rest(f, FieldSteps(i + 1))
             IN Value(formatValue(order[i][2]))
      Stamp ==
        IF ~IsZero(pt.Time)
        THEN <<<<" ">>, FormatInt(Quo64(UnixNano(pt.Time), precisionFactor(precision)))>>
        ELSE <<>>
      Line(b) ==
        LET start == <<escapeMeasurement(pt.Name)>> \o TagSteps(pt.Tags) \o <<<<" ">>>> \o b.steps
        IN IF b.err # "" THEN [steps |-> start, err |-> b.err]
           ELSE [steps |-> start \o Stamp \o <<<<"\n">>>>, err |-> ""]
  IN IF pt.Fields = {} THEN [steps |-> <<>>, err |-> "ErrNoFields"]
     ELSE Line(FieldSteps(1))

\* A write that goes to the io.Writer of the first caller.
WriteStringShared(sinks, i, text) == [sinks EXCEPT ![1] = @ \o text]

\* io.WriteString(w, text) by caller i: w is the caller's own io.Writer.
WriteStringOp(sinks, i, text) == [sinks EXCEPT ![i] = @ \o text]

\* No caller has started.  pts are the Points the callers hold pointers to,
\* arg what they were when Encode was called, pc the writes a caller has
\* made, sinks the io.Writers, done and errs what has been returned; mixed
\* records that a caller wrote while another was in the middle of its line.
InitCallers ==
  /\ Start
  /\ family = "callers"
  /\ columns = <<>>
  /\ columnsByName = NilMap
  /\ closed = FALSE
  /\ call = [pts |-> <<>>, arg |-> <<>>, precision |-> "", orders |-> <<>>, pc |-> <<>>,
             sinks |-> <<>>, done |-> <<>>, errs |-> <<>>, mixed |-> FALSE]
  /\ sink = <<>>

\* The callers call Encode, each with its own Point and io.Writer.
Go ==
  /\ call.pts = <<>>
  /\ \E pts \in [1..MaxCallers -> Points] : \E orders \in OrdersOf(pts) :
       \E precision \in PointPrecisions :
         call' = [pts |-> pts, arg |-> pts, precision |-> precision, orders |-> orders,
                  pc |-> [i \in 1..MaxCallers |-> 0],
                  sinks |-> [i \in 1..MaxCallers |-> <<>>],
                  done |-> [i \in 1..MaxCallers |-> FALSE],
                  errs |-> [i \in 1..MaxCallers |-> ""], mixed |-> FALSE]
  /\ UNCHANGED <<columns, columnsByName, closed, cursor, sink>>

\* The steps of caller i.
StepsOf(i) == WriteSteps(call.pts[i], call.precision, call.orders[i])

\* A caller makes its next io.WriteString.
WriteString ==
  /\ \E i \in 1..Len(call.pts) :
       /\ call.pc[i] < Len(StepsOf(i).steps)
       /\ call' = [call EXCEPT !.pc[i] = @ + 1,
                               !.sinks = WriteStringOp(@, i, StepsOf(i).steps[call.pc[i] + 1]),
                               !.mixed = @ \/ \E j \in 1..Len(call.pts) :
                                                j # i /\ call.pc[j] > 0
                                                /\ call.pc[j] < Len(StepsOf(j).steps)]
  /\ UNCHANGED <<columns, columnsByName, closed, cursor, sink>>

\* A caller's Encode returns.
EncodeReturns ==
  /\ \E i \in 1..Len(call.pts) :
       /\ ~call.done[i]
       /\ call.pc[i] = Len(StepsOf(i).steps)
       /\ call' = [call EXCEPT !.done[i] = TRUE, !.errs[i] = StepsOf(i).err]
  /\ UNCHANGED <<columns, columnsByName, closed, cursor, sink>>

NextCallers == Go \/ WriteString \/ EncodeReturns

SpecCallers == InitCallers /\ [][NextCallers]_vars

----------------------------------------------------------------------------
(* The Querier and the options of one call.  A Go map is a reference: the *)
(* maps of a call are the cells of a heap, cell 1 the map the Querier      *)
(* holds, and a Params field is the number of a cell, 0 for the nil map.   *)

\* The bound parameters a map holds: the keys of some parameters and a
\* value for each.
ParamMaps ==
  LET host == [k \in {"host"} |-> "a"]
      both == [k \in {"host", "id"} |-> IF k = "host" THEN "b" ELSE "c"]
  IN {<<>>, host, both}

\* The options of a call: Param(key, val) and Params(params).
QueryOpts ==
  {[kind |-> "Param", key |-> key, val |-> val, params |-> <<>>] :
     key \in {"host", "id"}, val \in {"a", "d"}}
  \cup {[kind |-> "Params", key |-> "", val |-> "", params |-> m] : m \in ParamMaps}

\* m[key] = val
SetParam(m, key, val) == [k \in DOMAIN m \cup {key} |-> IF k = key THEN val ELSE m[k]]

\* for key, val := range params { m[key] = val }
SetParams(m, params) ==
  [k \in DOMAIN m \cup DOMAIN params |-> IF k \in DOMAIN params THEN params[k] ELSE m[k]]

\* A Clone that copies the struct and leaves the map of the copy the map of
\* the original.
CloneShared(h) == h

\* QueryOptions.Clone: the copy holds a new map with the entries of the old
\* one, none for the nil map.
Clone(h) ==
  [h EXCEPT !.heap = Append(@, IF h.Params = 0 THEN <<>> ELSE @[h.Params]),
            !.Params = Len(h.heap) + 1]

\* f.apply(&opt) of Param and of Params.  Assigning to an entry of the nil
\* map panics; ranging over no parameters assigns nothing.
Apply(h, f) ==
  IF h.err # "" THEN h
  ELSE IF f.kind = "Params" /\ DOMAIN f.params = {} THEN h
  ELSE IF h.Params = 0 THEN [h EXCEPT !.err = "panic"]
  ELSE IF f.kind = "Param" THEN [h EXCEPT !.heap[h.Params] = SetParam(@, f.key, f.val)]
  ELSE [h EXCEPT !.heap[h.Params] = SetParams(@, f.params)]

\* for _, f := range opts { f.apply(&opt) }
RECURSIVE ApplyFrom(_, _, _)
ApplyFrom(h, opts, i) ==
  IF i > Len(opts) THEN h ELSE ApplyFrom(Apply(h, opts[i]), opts, i + 1)

\* The "params" of the request: the entries of opt.Params when it has any.
SentParams(h) == IF h.Params = 0 THEN <<>> ELSE h.heap[h.Params]

\* The first lines of Select and of Execute, and the request: opt is the
\* QueryOptions of the Querier, or its clone with the options applied.
\* heap |-> the maps after the call, sent |-> the parameters sent.
OptionsOp(stored, opts) ==
  LET q == [heap |-> IF stored.nil THEN <<>> ELSE <<stored.m>>,
            Params |-> IF stored.nil THEN 0 ELSE 1, err |-> ""]
      opt == IF Len(opts) > 0 THEN ApplyFrom(Clone(q), opts, 1) ELSE q
  IN [stored |-> IF stored.nil THEN stored ELSE [stored EXCEPT !.m = opt.heap[1]],
      sent |-> IF opt.err # "" THEN <<>> ELSE SentParams(opt),
      err |-> opt.err]

\* The maps a Querier is given: none, an empty one, or one of parameters.
StoredParams == {NilMap} \cup {[m |-> m, nil |-> FALSE] : m \in ParamMaps}

\* A Querier with its QueryOptions set, no call made.  was is its Params as
\* they were set, given the parameters that the options of the calls held.
InitQuerier ==
  /\ Start
  /\ family = "querier"
  /\ columns = <<>>
  /\ columnsByName = NilMap
  /\ closed = FALSE
  /\ sink = <<>>
  /\ \E stored \in StoredParams :
       call = [op |-> "", opts |-> <<>>, sent |-> <<>>, err |-> "", n |-> 0,
               Params |-> stored, was |-> stored, given |-> {}]

\* The keys the options name.
KeysOf(opts) ==
  UNION {IF opts[i].kind = "Param" THEN {opts[i].key} ELSE DOMAIN opts[i].params :
           i \in 1..Len(opts)}

\* The call op of the Querier with the options opts has made its request o
\* and has returned err.
Queried(op, opts, o, err) ==
  /\ call' = [op |-> op, opts |-> opts, sent |-> o.sent,
              err |-> IF o.err # "" THEN o.err ELSE err,
              n |-> call.n + 1, Params |-> o.stored, was |-> call.was,
              given |-> call.given \cup KeysOf(call.opts)]
  /\ UNCHANGED <<columns, columnsByName, closed, cursor, sink>>

\* q.Select(query, opts...)
Select ==
  /\ call.n < MaxQueries
  /\ call.err # "panic"
  /\ \E n \in 0..MaxOpts : \E opts \in [1..n -> QueryOpts] : \E response \in Responses :
       Queried("Select", opts, OptionsOp(call.Params, opts),
               CASE response.status = "no response" -> "Do"
                 [] response.status = "5xx" -> "ReadError"
                 [] OTHER -> NewCursorOp(response.format).err)

\* q.Execute(query, opts...), the body of the response empty.
ExecuteOptions ==
  /\ call.n < MaxQueries
  /\ call.err # "panic"
  /\ \E n \in 0..MaxOpts : \E opts \in [1..n -> QueryOpts] : \E response \in Responses :
       Queried("Execute", opts, OptionsOp(call.Params, opts), ExecuteOp(World, response).err)

NextQuerier == Select \/ ExecuteOptions

SpecQuerier == InitQuerier /\ [][NextQuerier]_vars

----------------------------------------------------------------------------
(* The escape functions on one string                                      *)

\* The strings that are escaped: the characters the tables name, '=' and a
\* letter, in any order.
Texts == UNION {[1..n -> {"a", ",", " ", "=", "\\", "\""}] : n \in 0..MaxText}

\* Nothing escaped yet.
InitEscape ==
  /\ Start
  /\ family = "escapes"
  /\ columns = <<>>
  /\ columnsByName = NilMap
  /\ closed = FALSE
  /\ call = [op |-> "", arg |-> <<>>, val |-> <<>>]
  /\ sink = <<>>

\* The function op has been applied to in and has returned out.
Escaped(op, in, out) ==
  /\ call.op = ""
  /\ call' = [op |-> op, arg |-> in, val |-> out]
  /\ UNCHANGED <<columns, columnsByName, closed, cursor, sink>>

EscapeMeasurement == \E in \in Texts : Escaped("escapeMeasurement", in, escapeMeasurement(in))

EscapeTag == \E in \in Texts : Escaped("escapeTag", in, escapeTag(in))

EscapeString == \E in \in Texts : Escaped("escapeString", in, escapeString(in))

\* formatValue(v) of a string v
FormatString ==
  \E in \in Texts : Escaped("formatValue", in, formatValue(Field("string", in, 0)).value)

NextEscape == EscapeMeasurement \/ EscapeTag \/ EscapeString \/ FormatString

SpecEscape == InitEscape /\ [][NextEscape]_vars

\* The field values that are formatted: integers of each type with the
\* ends of its range, the booleans, and a value of every other kind.
FieldValues ==
  {IntField("int64", z) : z \in {MinInt64, MaxInt64, Small(0), Small(-1), Small(5), Small(100),
                                 Small(10), Small(-999999999), Limbs(FALSE, 0, 1, 0),
                                 Limbs(FALSE, 0, 12, 345678901), Limbs(TRUE, 1, 0, 7),
                                 Limbs(FALSE, 1, 0, 0)}}
  \cup {IntField("int32", z) : z \in {Limbs(TRUE, 0, 2, 147483648), Limbs(FALSE, 0, 2, 147483647),
                                      Small(0), Small(-64), Small(36), Small(1),
                                      Limbs(TRUE, 0, 1, 0)}}
  \cup {IntField("int", z) : z \in {MinInt64, MaxInt64, Small(0), Small(-10), Small(99),
                                    Limbs(FALSE, 0, 2, 147483648)}}
  \cup {Field("bool", <<>>, 0), Field("bool", <<>>, 1), Field("float64", <<>>, 25000000),
        Field("string", <<"a", "\"">>, 0), Field("uint64", <<>>, 1)}

\* No value formatted yet.
InitFormat ==
  /\ Start
  /\ family = "values"
  /\ columns = <<>>
  /\ columnsByName = NilMap
  /\ closed = FALSE
  /\ call = [op |-> "", arg |-> Field("bool", <<>>, 0), val |-> [value |-> <<>>, err |-> ""],
             n |-> 0, tick |-> FALSE]
  /\ sink = <<>>

\* formatValue(v) of lines 308-330
FormatValue ==
  /\ call.n < MaxPoints
  /\ \E v \in FieldValues :
       call' = [op |-> "formatValue", arg |-> v, val |-> formatValue(v),
                n |-> call.n + 1, tick |-> ~call.tick]
  /\ UNCHANGED <<columns, columnsByName, closed, cursor, sink>>

\* formatValue(v) of lines 127-149
FormatValueEarlier ==
  /\ call.n < MaxPoints
  /\ \E v \in FieldValues :
       call' = [op |-> "formatValueEarlier", arg |-> v, val |-> formatValueEarlier(v),
                n |-> call.n + 1, tick |-> ~call.tick]
  /\ UNCHANGED <<columns, columnsByName, closed, cursor, sink>>

NextFormat == FormatValue \/ FormatValueEarlier

SpecFormat == InitFormat /\ [][NextFormat]_vars

\* A response body, nothing read from it, and no cursor yet.
InitNewCursor ==
  /\ Start
  /\ family = "rows"
  /\ columns = <<>>
  /\ columnsByName = NilMap
  /\ closed = FALSE
  /\ call = [op |-> "", arg |-> <<>>, val |-> [cursor |-> FALSE, err |-> "", Format |-> <<>>],
             tick |-> FALSE]
  /\ sink = <<>>

\* NewCursor(r, format): neither branch reads r or closes it.
NewCursor ==
  \E format \in Formats :
    /\ call' = [op |-> "NewCursor", arg |-> format, val |-> NewCursorOp(format),
                tick |-> ~call.tick]
    /\ UNCHANGED <<columns, columnsByName, closed, cursor, sink>>

\* The server writes the body; NewCursor is called on it.
NextNewCursor == SendDocument \/ SendResult \/ NewCursor

SpecNewCursor == InitNewCursor /\ [][NextNewCursor]_vars

----------------------------------------------------------------------------
(* The claims.                                                             *)

IsPrefix(p, q) == Len(p) <= Len(q) /\ SubSeq(q, 1, Len(p)) = p

\* C1: iterating a chunked encoding of a response in full returns what
\* iterating the response returns: the same results, in each result the same
\* series by name, and for every series every row once and in order,
\* wherever the stream was cut; at every moment of the iteration what has
\* been returned is a prefix of it, and at the end it is all of it.
C1_ChunkingTransparent ==
  full => /\ IsPrefix(trace, expect)
          /\ level = "done" => trace = expect

\* A full iteration has ended and a series of the last result was put
\* together from more than one chunk.
C1_Witness ==
  /\ full
  /\ level = "done"
  /\ \E k \in 1..Len(sets) : \E j \in 1..Len(sets[k].held) :
       /\ sets[k].held[j].chunk.Values # <<>>
       /\ sets[k].held[j].sz > Len(sets[k].held[j].chunk.Values)
       /\ sets[k].held[j].nret = sets[k].held[j].sz

\* The Results the cursor gets when it decodes the rest of the stream, each
\* document once the queue is empty.
RECURSIVE Decoded(_)
Decoded(w) ==
  IF w.stream = <<>> THEN <<>>
  ELSE LET d == Decode([w EXCEPT !.buf = <<>>]).w IN d.buf \o Decoded(d)

\* The Results not taken yet, in the order NextSet finds them.
PendingOf(w) == w.buf \o Decoded(w)

Pending == PendingOf(World)

WorldNext ==
  [stream |-> stream', buf |-> buf', spare |-> spare', cur |-> cur', sets |-> sets']

\* Nothing is left to read: the queue is empty and the stream has ended.
Ended == buf = <<>> /\ stream = <<>>

\* C2: a call that needs the continuation a partial flag promised when
\* nothing is left returns io.ErrUnexpectedEOF; NextSet returns io.EOF only
\* when the last Result it had to take is not partial (or there was none),
\* NextSeries only when the result is not partial, NextRow only when the
\* series is not partial.
C2_Step ==
  /\ (ret'.op = "NextSet" /\ Ended /\ cur.kind # "nil" /\ CurPartial(World))
       => ret'.err = "UEOF"
  /\ (ret'.op = "NextSeries" /\ Ended /\ sets[ret'.k].Partial /\ ret'.err # "")
       => ret'.err = "UEOF"
  /\ (ret'.op = "NextRow" /\ Ended /\ sets[ret'.k].Partial /\ ret'.err # ""
        /\ sets'[ret'.k].held[ret'.j].partial)
       => ret'.err = "UEOF"
  /\ (ret'.op = "NextSet" /\ ret'.err = "EOF")
       => IF Pending = <<>> THEN cur.kind = "nil" \/ ~CurPartial(World)
          ELSE ~Last(Pending).Partial
  /\ (ret'.op = "NextSeries" /\ ret'.err = "EOF") => ~sets'[ret'.k].Partial
  /\ (ret'.op = "NextRow" /\ ret'.err = "EOF") => ~sets'[ret'.k].held[ret'.j].partial

RECURSIVE ChainLen(_)
ChainLen(p) ==
  IF p = <<>> THEN 1
  ELSE IF ~Head(p).Partial THEN 1
  ELSE 1 + ChainLen(Tail(p))

\* The Results NextSet passes over before it takes one.
Skipped == IF cur.kind # "nil" /\ CurPartial(World) THEN ChainLen(Pending) ELSE 0

\* No ResultSet has been returned: the caller holds what it held.
NoNewSet == cur'.kind # "set" /\ sets' = Detach(Leave(World)).sets /\ nsets' = nsets

\* The ResultSet returned is a new one, made of the Result t.
NewSetOf(t) ==
  /\ cur'.kind = "set"
  /\ nsets' = nsets + 1
  /\ Len(sets') = Min(Len(sets) + 1, HeldSets)
  /\ Last(sets').Series = t.Series
  /\ Last(sets').Partial = t.Partial
  /\ Last(sets').index = 0
  /\ Last(sets').held = <<>>

\* C3: when the Result NextSet takes has a non-empty error string, NextSet
\* returns ErrResult with exactly that string and no ResultSet; when the
\* string is empty it returns a ResultSet of that Result and a nil error.
C3_Step ==
  (ret'.op = "NextSet" /\ Skipped < Len(Pending)) =>
     LET t == Pending[Skipped + 1]
     IN IF t.Err # ""
        THEN ret'.err = "ErrResult" /\ ret'.msg = t.Err /\ NoNewSet
        ELSE ret'.err = "" /\ NewSetOf(t)

C3_ResultError == [][C3_Step]_vars

\* NextSet has returned the ErrResult of a failed Result that follows a
\* ResultSet the caller holds.
C3_Witness ==
  /\ ret.op = "NextSet"
  /\ ret.err = "ErrResult"
  /\ ret.msg = "boom"
  /\ sets # <<>>
  /\ cur.kind = "tmp"

\* C4: the NextSet call that follows a NextSet which returned the error of
\* a failed Result moves on to the Result after the failed one: it returns
\* that Result (its ResultSet, or its error), or io.EOF when there is none.
C4_Step ==
  (ret.op = "NextSet" /\ ret.err = "ErrResult" /\ ret'.op = "NextSet") =>
     IF Len(Pending) < 2 THEN ret'.err = "EOF"
     ELSE LET t == Pending[2]
          IN IF t.Err # "" THEN ret'.err = "ErrResult" /\ ret'.msg = t.Err
             ELSE ret'.err = "" /\ NewSetOf(t)

C4_LookPastFailed == [][C4_Step]_vars

\* The number of results of the logical response.
RECURSIVE NumSets(_)
NumSets(t) ==
  IF t = <<>> THEN 0
  ELSE (IF Head(t) = <<"set">> THEN 1 ELSE 0) + NumSets(Tail(t))

\* C5: NextSet called while the current result is partial passes over the
\* rest of its continuation chain, every Result up to and including the
\* first that is not partial, whatever the caller has consumed, and takes
\* the Result after the chain; so over a chunked encoding NextSet returns
\* one ResultSet for each logical result.
C5_Step ==
  /\ (ret'.op = "NextSet" /\ cur.kind # "nil" /\ CurPartial(World)) =>
       LET p == Pending
           n == ChainLen(p)
       IN IF n > Len(p) THEN ret'.err = "UEOF"
          ELSE IF n = Len(p) THEN ret'.err = "EOF" /\ PendingOf(WorldNext) = <<>>
          ELSE LET t == p[n + 1]
               IN IF t.Err # ""
                  THEN ret'.err = "ErrResult" /\ PendingOf(WorldNext) = SubSeq(p, n + 1, Len(p))
                  ELSE /\ ret'.err = ""
                       /\ NewSetOf(t)
                       /\ PendingOf(WorldNext) = SubSeq(p, n + 2, Len(p))
  /\ expect # <<>> => nsets' <= NumSets(expect)
  /\ (expect # <<>> /\ ret'.op = "NextSet" /\ ret'.err = "EOF") => nsets' = NumSets(expect)

C5_SkipsContinuationChain == [][C5_Step]_vars

\* Over a chunked encoding NextSet has returned a ResultSet after the caller
\* left the ResultSet before it partial, with some of its rows read.
C5_Witness ==
  /\ expect # <<>>
  /\ ret.op = "NextSet"
  /\ ret.err = ""
  /\ Len(sets) >= 2
  /\ sets[Len(sets) - 1].Partial
  /\ sets[Len(sets) - 1].held # <<>>
  /\ sets[Len(sets) - 1].held[1].nret > 0

\* A call on a ResultSet, or on a Series of it, after NextSet was called
\* again leaves the cursor alone.
StaleFrame ==
  (ret'.op \in {"NextSeries", "NextRow"} /\ sets[ret'.k].left) =>
     /\ stream' = stream
     /\ buf' = buf
     /\ spare' = spare
     /\ cur' = cur

\* C6 as stated: the stale call returns what is in memory, then io.EOF when
\* the result (the series) is not partial and io.ErrUnexpectedEOF when it is.
C6_OriginalStep ==
  /\ StaleFrame
  /\ (ret'.op = "NextSeries" /\ sets[ret'.k].left /\ ret'.err # "") =>
       ret'.err = IF sets'[ret'.k].Partial THEN "UEOF" ELSE "EOF"
  /\ (ret'.op = "NextRow" /\ sets[ret'.k].left /\ ret'.err # "") =>
       ret'.err = IF sets'[ret'.k].held[ret'.j].partial THEN "UEOF" ELSE "EOF"

C6_Original == [][C6_OriginalStep]_vars

\* C6, amended: once NextSet has been called again, NextSeries and NextRow
\* on the ResultSets and Series returned before read nothing from the
\* stream and change neither the queue nor the current result; when they
\* return no item they return io.EOF only if the result (the series) is not
\* partial, io.ErrUnexpectedEOF only if it is partial, and ErrSeriesTruncated
\* only if the series is partial in a result that is not.
C6_Step ==
  /\ StaleFrame
  /\ (ret'.op = "NextSeries" /\ sets[ret'.k].left /\ ret'.err # "") =>
       LET r == sets[ret'.k]
           partial == sets'[ret'.k].Partial
       IN /\ ret'.err \in {"EOF", "UEOF", "Truncated"}
          /\ ret'.err = "UEOF" <=> partial
          /\ ret'.err = "Truncated" => (r.series /\ Last(r.held).partial)
  /\ (ret'.op = "NextRow" /\ sets[ret'.k].left /\ ret'.err # "") =>
       LET s == sets'[ret'.k].held[ret'.j]
       IN /\ ret'.err \in {"EOF", "UEOF", "Truncated"}
          /\ ret'.err = "EOF" <=> ~s.partial
          /\ ret'.err = "Truncated" <=> (s.partial /\ ~s.invalid /\ ~sets'[ret'.k].Partial)

C6_StaleHandles == [][C6_Step]_vars

\* NextRow on the active series of a partial ResultSet that NextSet has
\* left behind has returned io.ErrUnexpectedEOF while the stream holds more.
C6_Witness ==
  /\ ret.op = "NextRow"
  /\ ret.err = "UEOF"
  /\ sets[ret.k].left
  /\ sets[ret.k].Partial
  /\ ~sets[ret.k].held[ret.j].invalid
  /\ Pending # <<>>

\* The position of a ResultSet: its series array, index and partial flag.
Position(r) == <<r.Series, r.index, r.Partial>>

\* C7: once NextSeries has returned the next series, NextRow on the series
\* returned before it changes neither the position of the ResultSet nor the
\* queue: it returns the rows that series has buffered, then io.EOF if the
\* series was complete and io.ErrUnexpectedEOF if it was partial.
C7_Step ==
  (ret'.op = "NextRow" /\ ret'.j < Len(sets[ret'.k].held)) =>
     LET s == sets[ret'.k].held[ret'.j]
         t == sets'[ret'.k].held[ret'.j]
     IN /\ Position(sets'[ret'.k]) = Position(sets[ret'.k])
        /\ buf' = buf
        /\ stream' = stream
        /\ IF s.values # <<>>
           THEN ret'.err = "" /\ ret'.val = Head(s.values) /\ t.values = Tail(s.values)
           ELSE ret'.err = (IF s.partial THEN "UEOF" ELSE "EOF") /\ t = s

C7_PreviousSeriesFrozen == [][C7_Step]_vars

\* NextRow has returned io.ErrUnexpectedEOF on a partial series, some of
\* its rows read, that NextSeries has left, while the ResultSet is the
\* cursor's current one and attached to it.
C7_Witness ==
  /\ ret.op = "NextRow"
  /\ ret.err = "UEOF"
  /\ ret.j < Len(sets[ret.k].held)
  /\ sets[ret.k].held[ret.j].partial
  /\ sets[ret.k].held[ret.j].nret > 0
  /\ ~sets[ret.k].left
  /\ sets[ret.k].cur

\* C8: Len returns n = sz, the rows NextRow has returned plus the rows still
\* buffered, and complete = ~partial, true exactly when the last chunk loaded
\* is not partial; n never decreases; when NextRow returns io.EOF, n is the
\* number of rows returned and complete is true.
C8_Step ==
  /\ \A k \in 1..Len(sets') : \A j \in 1..Len(sets'[k].held) :
       LET s == sets'[k].held[j]
       IN /\ s.sz = s.nret + Len(s.values)
          /\ ~s.partial <=> ~s.chunk.Partial
  /\ ret'.op = "NextRow" =>
       LET s == sets[ret'.k].held[ret'.j]
           t == sets'[ret'.k].held[ret'.j]
       IN /\ t.sz >= s.sz
          /\ ret'.err = "" => t.nret = s.nret + 1
          /\ ret'.err # "" => t.nret = s.nret
          /\ ret'.err = "EOF" => (t.sz = t.nret /\ ~t.partial)

C8_SeriesLen == [][C8_Step]_vars

\* NextRow has returned io.EOF on a series whose rows came in more than one
\* chunk, all of them returned.
C8_Witness ==
  /\ ret.op = "NextRow"
  /\ ret.err = "EOF"
  /\ LET s == sets[ret.k].held[ret.j]
     IN s.sz >= 2 /\ s.nret = s.sz /\ Len(s.chunk.Values) < s.sz

\* The ResultSet is not partial, its series array holds no further entry,
\* and its active series is partial.
TruncatedAt(r) ==
  /\ ~r.Partial
  /\ r.index >= Len(r.Series)
  /\ r.series
  /\ Last(r.held).partial

\* C9: when a series is partial, the enclosing Result is not, and the series
\* array holds no further entry, NextRow on that series, its buffered rows
\* used up, and NextSeries after it return ErrSeriesTruncated.
C9_Step ==
  /\ (ret'.op = "NextRow" /\ TruncatedAt(sets[ret'.k]) /\ ret'.j = Len(sets[ret'.k].held)) =>
       IF Last(sets[ret'.k].held).values = <<>> THEN ret'.err = "Truncated"
       ELSE ret'.err = ""
  /\ (ret'.op = "NextSeries" /\ TruncatedAt(sets[ret'.k])) => ret'.err = "Truncated"

C9_SeriesTruncated == [][C9_Step]_vars

\* NextSeries has returned ErrSeriesTruncated on a result whose active
\* series is truncated, the rows it had all returned by NextRow.
C9_Witness ==
  /\ ret.op = "NextSeries"
  /\ ret.err = "Truncated"
  /\ TruncatedAt(sets[ret.k])
  /\ Last(sets[ret.k].held).nret > 0
  /\ Last(sets[ret.k].held).values = <<>>

\* The ResultSet has to take the next Result of the stream to go on: it is
\* partial and attached to the cursor and its series array is used up.
MustFollow(r) == r.Partial /\ r.cur /\ r.index >= Len(r.Series)

\* C10: when NextRow or NextSeries has to follow a partial series or result
\* into the next Result of the stream and that Result carries an error
\* string, the call returns ErrResult with that string.
C10_Step ==
  LET r == sets[ret'.k]
  IN (/\ ret'.op \in {"NextRow", "NextSeries"}
      /\ MustFollow(r)
      /\ ret'.op = "NextRow" =>
           LET s == r.held[ret'.j]
           IN s.values = <<>> /\ s.partial /\ ~s.invalid
      /\ Pending # <<>>
      /\ Pending[1].Err # "")
     => (ret'.err = "ErrResult" /\ ret'.msg = Pending[1].Err)

C10_FollowIntoError == [][C10_Step]_vars

\* The column list of the first series entry of the Result t, empty when it
\* has no series.
FirstColumns(t) == IF t.Series = <<>> THEN <<>> ELSE t.Series[1].Columns

\* C11: Columns() of a ResultSet is the column list of the first series
\* entry of the Result NextSet took, as it was then (empty when the Result
\* has no series); no later call changes it, whatever columns the entries
\* that follow carry; and Columns() of a Series is that of its ResultSet.
C11_Step ==
  /\ IF ret'.op = "NextSet" /\ ret'.err = ""
     THEN LET d == Len(sets) + 1 - Len(sets')
          IN /\ Columns(Last(sets')) = FirstColumns(Pending[Skipped + 1])
             /\ \A k \in 1..(Len(sets') - 1) : Columns(sets'[k]) = Columns(sets[k + d])
     ELSE /\ Len(sets') = Len(sets)
          /\ \A k \in 1..Len(sets) : Columns(sets'[k]) = Columns(sets[k])
  /\ \A k \in 1..Len(sets') : SeriesColumns(sets'[k]) = Columns(sets'[k])

C11_ColumnsFixed == [][C11_Step]_vars

\* NextRow has returned a row of a continuation entry whose column list is
\* not the one the ResultSet reports.
C11_Witness ==
  /\ ret.op = "NextRow"
  /\ ret.err = ""
  /\ Columns(sets[ret.k]) = <<"time", "value">>
  /\ sets[ret.k].held[ret.j].chunk.Columns = <<"host">>
  /\ sets[ret.k].held[ret.j].sz > Len(sets[ret.k].held[ret.j].chunk.Values)

\* The position of the first column called name, counted from 0; -1 when
\* there is none.
FirstIndex(cols, name) ==
  IF \E i \in 1..Len(cols) : cols[i] = name
  THEN (CHOOSE i \in 1..Len(cols) : cols[i] = name /\ \A h \in 1..(i - 1) : cols[h] # name) - 1
  ELSE -1

\* C12: Index(name) returns a position of a column called name, -1 when
\* there is none, and the position does not depend on the Index calls made
\* before: it is the one the first call on the ResultSet returns, also when
\* a name is repeated in the column list.
C12_Step == call'.op = "Index" => call'.val = FirstIndex(columns, call'.arg)

C12_IndexDeterministic == [][C12_Step]_vars

\* C13: NewCursor returns a cursor for the tags "json" and
\* "application/json"; for every other tag it returns ErrUnknownFormat with
\* that tag and no cursor; it reads nothing from the body and does not close
\* it.
C13_Step ==
  (call'.op = "NewCursor" /\ call'.tick # call.tick) =>
    /\ IF call'.arg \in {<<"json">>, <<"application/", "json">>}
       THEN call'.val.cursor /\ call'.val.err = ""
       ELSE /\ ~call'.val.cursor
            /\ call'.val.err = "ErrUnknownFormat"
            /\ call'.val.Format = call'.arg
    /\ stream' = stream
    /\ buf' = buf
    /\ closed' = closed

C13_NewCursorFormats == [][C13_Step]_vars

\* NewCursor has refused a tag that ends in json, over a body that holds a
\* document.
C13_Witness ==
  /\ call.op = "NewCursor"
  /\ call.arg = <<"x-", "json">>
  /\ call.val.err = "ErrUnknownFormat"
  /\ stream # <<>>
  /\ ~closed

\* The pairs of a Tags list, and its keys in ascending order.
PairsOf(t) == {<<t[i].Key, t[i].Value>> : i \in 1..Len(t)}

Ascending(t) == \A i \in 1..Len(t) - 1 : KeyRank(t[i].Key) < KeyRank(t[i + 1].Key)

\* C14: the Tags of a Series NextSeries has returned are exactly the pairs
\* of the tag mapping of the series entry of that name, each once, in
\* ascending order of key, and nil when the entry has no tags.
C14_TagsOfEntry ==
  (family = "tags" /\ ret.op = "NextSeries" /\ ret.err = "") =>
    LET t == Last(sets[ret.k].held).tags
    IN /\ PairsOf(t) = ServerTags[ret.val]
       /\ Len(t) = Cardinality(ServerTags[ret.val])
       /\ Ascending(t)

\* C15: Time() never fails: without a "time" column it is the zero time, and
\* else it is what the value of a "time" column gives: a string parsed as
\* RFC3339 (the zero time when it does not parse), a number as nanoseconds
\* since the Unix epoch, null and any other type the zero time.
C15_TimeNeverFails ==
  call.op = "Time" =>
    /\ call.val.kind # "panic"
    /\ IF \A i \in 1..Len(columns) : columns[i] # "time"
       THEN call.val = ZeroTime
       ELSE \E i \in 1..Len(columns) :
              /\ columns[i] = "time"
              /\ i <= Len(call.arg)
              /\ call.val = TimeOf(call.arg[i])

\* The same for the rows that have a value for every column.
C15_WholeRows ==
  (call.op = "Time" /\ Len(call.arg) >= Len(columns)) =>
    /\ call.val.kind # "panic"
    /\ IF \A i \in 1..Len(columns) : columns[i] # "time"
       THEN call.val = ZeroTime
       ELSE \E i \in 1..Len(columns) :
              /\ columns[i] = "time"
              /\ call.val = TimeOf(call.arg[i])

\* What the last call has written.
Written == SubSeq(sink, call.val.start + 1, Len(sink))

\* C16: Encode of a point without fields fails with ErrNoFields and writes
\* nothing, whatever the name, the tags and the time of the point.
C16_NoFields ==
  (call.op = "Encode" /\ call.arg.pt.Fields = {}) =>
    /\ call.val.err = "ErrNoFields"
    /\ Written = <<>>

C16_Witness ==
  /\ call.op = "Encode"
  /\ call.arg.pt.Fields = {}
  /\ call.arg.pt.Name = <<"c", " ">>
  /\ call.arg.pt.Tags # <<>>
  /\ ~IsZero(call.arg.pt.Time)
  /\ call.n = 2
  /\ sink # <<>>

\* The kinds of field value formatValue knows.
Supported == {"float64", "int64", "int32", "int", "string", "bool"}

EndsWith(t, e) == Len(e) <= Len(t) /\ SubSeq(t, Len(t) - Len(e) + 1, Len(t)) = e

\* C17: when a field value of the point is of no supported type, Encode
\* returns an error, has written neither the key of that field nor its '=',
\* and the sink holds whole lines only: it is empty or ends with a newline.
C17_NoPartialField ==
  (call.op = "Encode" /\ \E f \in call.arg.pt.Fields : f[2].kind \notin Supported) =>
    /\ call.val.err # ""
    /\ \A f \in call.arg.pt.Fields :
         f[2].kind \notin Supported => ~EndsWith(Written, escapeString(f[1]) \o <<"=">>)
    /\ sink = <<>> \/ sink[Len(sink)] = "\n"

\* What the call of the next state has written.
WrittenNext == SubSeq(sink', call'.val.start + 1, Len(sink'))

\* C18: the encoded line determines the point: two points with fields that
\* Encode writes as the same line have the same measurement, the same tags
\* and the same field keys and values, also when names, tag keys and values
\* and field keys hold ',', ' ', '=', '"' or '\'.
C18_Step ==
  (/\ call.op = "Encode" /\ call.val.err = ""
   /\ call'.op = "Encode" /\ call'.val.err = "" /\ call'.n = call.n + 1
   /\ WrittenNext = Written) =>
    /\ call'.arg.pt.Name = call.arg.pt.Name
    /\ call'.arg.pt.Tags = call.arg.pt.Tags
    /\ call'.arg.pt.Fields = call.arg.pt.Fields

C18_LineDeterminesPoint == [][C18_Step]_vars

\* The line of the one point whose timestamp is looked at, up to its fields.
StampBase == <<"c", " ", "v", "=", "5">>

\* An integer that fits an int64.
InRange(z) == ~Less64(z, MinInt64) /\ ~Less64(MaxInt64, z)

C19_Encode ==
  (call.op = "Encode" /\ call.arg.pt.Fields # {}) =>
    /\ call.val.err = ""
    /\ IsZero(call.arg.pt.Time) <=> Written = StampBase \o <<"\n">>
    /\ ~IsZero(call.arg.pt.Time) =>
         /\ Len(Written) > Len(StampBase) + 2
         /\ SubSeq(Written, 1, Len(StampBase) + 1) = StampBase \o <<" ">>
         /\ Written[Len(Written)] = "\n"
    /\ call.arg.pt.Time = Small(0) => Written = StampBase \o <<" ", "0", "\n">>

\* C19 as stated: Encode leaves the timestamp and its space out exactly
\* when the time of the point is not set, and writes the timestamp 0 for the
\* Unix epoch; SetTime of the zero time makes HasTimeSet false, and SetTime
\* of any other time makes HasTimeSet true with Time its Unix nanoseconds.
C19_Original ==
  /\ C19_Encode
  /\ call.op = "SetTime" =>
       IF IsZero(call.arg.timestamp) THEN ~HasTimeSet(call.val)
       ELSE HasTimeSet(call.val) /\ call.val.Time = call.arg.timestamp

\* C19, amended: the same, where SetTime of another time makes HasTimeSet
\* true with Time its Unix nanoseconds when these fit an int64 and are not
\* the smallest int64; for the time whose Unix nanoseconds are the smallest
\* int64 Time is the sentinel of a time not set and HasTimeSet is false.
C19_UnsetIsNotEpoch ==
  /\ C19_Encode
  /\ call.op = "SetTime" =>
       IF IsZero(call.arg.timestamp) \/ call.arg.timestamp = MinInt64
       THEN ~HasTimeSet(call.val)
       ELSE InRange(call.arg.timestamp) =>
              HasTimeSet(call.val) /\ call.val.Time = call.arg.timestamp

C19_Witness ==
  /\ call.op = "SetTime"
  /\ call.arg.timestamp = Small(0)
  /\ HasTimeSet(call.val)
  /\ call.val.Time = Small(0)
  /\ sink = StampBase \o <<" ", "0", "\n">>

\* The decimal digits of a text as numbers, a division of them by a small
\* number done digit by digit, and the text of digits without leading zeros.
DigitOf(ch) == CHOOSE d \in 0..9 : DigitChars[d + 1] = ch

RECURSIVE LongDivision(_, _, _)
LongDivision(ds, by, rem) ==
  IF ds = <<>> THEN <<>>
  ELSE <<DigitChars[((rem * 10 + DigitOf(Head(ds))) \div by) + 1]>>
       \o LongDivision(Tail(ds), by, (rem * 10 + DigitOf(Head(ds))) % by)

RECURSIVE Stripped(_)
Stripped(ds) ==
  IF ds = <<>> THEN <<"0">>
  ELSE IF Head(ds) = "0" /\ Len(ds) > 1 THEN Stripped(Tail(ds))
  ELSE ds

\* The factor of a precision: 10^drop * by.
StatedFactor(precision) ==
  CASE precision \in {"", "ns"} -> [drop |-> 0, by |-> 1]
    [] precision = "u" -> [drop |-> 3, by |-> 1]
    [] precision = "ms" -> [drop |-> 6, by |-> 1]
    [] precision = "s" -> [drop |-> 9, by |-> 1]
    [] precision = "m" -> [drop |-> 9, by |-> 60]
    [] precision = "h" -> [drop |-> 9, by |-> 3600]

\* The text of z divided by the factor f, the quotient cut toward zero.
Quotient(z, f) ==
  LET ds == FormatInt(Limbs(FALSE, z.g, z.s, z.n))
      q == Stripped(LongDivision(SubSeq(ds, 1, Len(ds) - f.drop), f.by, 0))
  IN (IF z.neg /\ q # <<"0">> THEN <<"-">> ELSE <<>>) \o q

\* C20: when the time is set, the timestamp written is the Unix nanoseconds
\* of the point divided by the factor of the precision, cut toward zero: 1
\* for "ns" and for no precision, 10^3 for "u", 10^6 for "ms", 10^9 for
\* "s", 60 * 10^9 for "m", 3600 * 10^9 for "h".
C20_Timestamp ==
  (/\ call.op = "Encode" /\ call.arg.pt.Fields # {}
   /\ ~IsZero(call.arg.pt.Time)
   /\ call.arg.precision \in {"", "ns", "u", "ms", "s", "m", "h"}) =>
    Written = StampBase \o <<" ">>
              \o Quotient(UnixNano(call.arg.pt.Time), StatedFactor(call.arg.precision))
              \o <<"\n">>

C20_Witness ==
  /\ call.op = "Encode"
  /\ call.arg.pt.Time = Limbs(TRUE, 0, 3600, 1)
  /\ call.arg.precision = "h"
  /\ Written = StampBase \o <<" ", "-", "1", "\n">>
  /\ call.n = 2
  /\ Len(sink) > Len(Written)

----------------------------------------------------------------------------
\* The text of the items of a sequence, each after the separator sep but
\* the first one when the text is a list.
RECURSIVE Listed(_, _, _)
Listed(items, sep, list) ==
  IF items = <<>> THEN <<>>
  ELSE Listed(SubSeq(items, 1, Len(items) - 1), sep, list)
       \o (IF list /\ Len(items) = 1 THEN <<>> ELSE sep) \o items[Len(items)]

\* The tags of the last call as key '=' value, in the order of the point.
TagItems ==
  [i \in 1..Len(call.arg.pt.Tags) |->
     escapeTag(call.arg.pt.Tags[i].Key) \o <<"=">> \o escapeTag(call.arg.pt.Tags[i].Value)]

\* The fields of the last call as key '=' value, in the order s.
FieldItems(s) == [i \in 1..Len(s) |-> escapeString(s[i][1]) \o <<"=">> \o formatValue(s[i][2]).value]

\* A base-10 integer.
IsNumber(t) ==
  LET ds == IF t # <<>> /\ t[1] = "-" THEN Tail(t) ELSE t
  IN ds # <<>> /\ \A i \in 1..Len(ds) : \E k \in 1..10 : DigitChars[k] = ds[i]

\* C21: a successful Encode writes one line: the escaped measurement, then
\* ',' key '=' value for each tag in the order of the point, nothing sorted
\* and no tag left out, then a space, then each field of the point once as
\* key '=' value with a single comma between two fields, then a space and a
\* number when the point has a time, then one newline.
C21_Line ==
  (call.op = "Encode" /\ call.val.err = "") =>
    \E s \in RangeOrders(call.arg.pt.Fields) :
      LET front == escapeMeasurement(call.arg.pt.Name) \o Listed(TagItems, <<",">>, FALSE)
                   \o <<" ">> \o Listed(FieldItems(s), <<",">>, TRUE)
          back == SubSeq(Written, Len(front) + 1, Len(Written) - 1)
      IN /\ Len(Written) > Len(front)
         /\ SubSeq(Written, 1, Len(front)) = front
         /\ Written[Len(Written)] = "\n"
         /\ IF IsZero(call.arg.pt.Time) THEN back = <<>>
            ELSE back # <<>> /\ back[1] = " " /\ IsNumber(Tail(back))

C21_Witness ==
  /\ call.op = "Encode" /\ call.val.err = ""
  /\ Len(call.arg.pt.Tags) = 3
  /\ call.arg.pt.Tags[1].Key = call.arg.pt.Tags[3].Key
  /\ Cardinality(call.arg.pt.Fields) = 2
  /\ ~IsZero(call.arg.pt.Time)
  /\ call.arg.order[1][1] = <<"g">>
  /\ call.n = 2 /\ call.val.start > 0

----------------------------------------------------------------------------
\* The number a text of at most nine digits is.
RECURSIVE NumberOf(_)
NumberOf(ds) ==
  IF ds = <<>> THEN 0 ELSE NumberOf(SubSeq(ds, 1, Len(ds) - 1)) * 10 + DigitOf(ds[Len(ds)])

\* The integer a base-10 text of at most 27 digits reads as.
Reads(t) ==
  LET neg == t # <<>> /\ t[1] = "-"
      ds == IF neg THEN Tail(t) ELSE t
      all == [i \in 1..(27 - Len(ds)) |-> "0"] \o ds
  IN Limbs(neg, NumberOf(SubSeq(all, 1, 9)), NumberOf(SubSeq(all, 10, 18)),
           NumberOf(SubSeq(all, 19, 27)))

\* The text of the integer z followed by 'i': digits without a leading
\* zero, after a '-' when z is negative, that read as z.
IntegerText(t, z) ==
  LET body == SubSeq(t, 1, Len(t) - 1)
  IN /\ t # <<>> /\ t[Len(t)] = "i"
     /\ IsNumber(body)
     /\ Stripped(IF z.neg THEN Tail(body) ELSE body) = (IF z.neg THEN Tail(body) ELSE body)
     /\ Reads(body) = z

\* What C22 says of the value of a call.
Formatted ==
  /\ call.arg.kind \in {"int", "int32", "int64"} =>
       call.val.err = "" /\ IntegerText(call.val.value, call.arg.int)
  /\ call.arg.kind = "bool" =>
       /\ call.val.err = ""
       /\ call.val.value = IF call.arg.num = 1 THEN <<"t", "r", "u", "e">>
                           ELSE <<"f", "a", "l", "s", "e">>

\* C22: for every int, int32 and int64, negative ones and the ends of the
\* range of the type included, formatValue succeeds and returns the base-10
\* digits of the value followed by 'i'; a boolean is formatted true or false.
C22_IntsAndBools == call.op \in {"formatValue", "formatValueEarlier"} => Formatted

\* The formatValue of lines 308-330 does so.
C22_Later == call.op = "formatValue" => Formatted

----------------------------------------------------------------------------
\* A point that the line protocol has a line for: it has a field, and
\* every field value is of a type that formatValue is to format.
Encodable(pt) == pt.Fields # {} /\ \A f \in pt.Fields : f[2].kind \in Supported

\* The lines of the first k points of the last call, one after the other,
\* each as Encode writes it alone with the precision given.
RECURSIVE LinesOf(_, _)
LinesOf(k, precision) ==
  IF k = 0 THEN <<>>
  ELSE LinesOf(k - 1, precision)
       \o EncodeOp(<<>>, call.arg.pts[k], precision, call.arg.orders[k]).w

\* What C23 says of a batch that a Writer writes: the body of the request
\* is the lines of the points in the order of the batch, and when a point
\* cannot be encoded the call returns 0 and an error and sends no request.
BatchWritten ==
  IF \A i \in 1..Len(call.arg.pts) : Encodable(call.arg.pts[i])
  THEN /\ Len(call.val.sent) =
            (IF call.arg.pts = <<>> \/ call.arg.status = "no request" THEN 0 ELSE 1)
       /\ \A r \in 1..Len(call.val.sent) :
            call.val.sent[r].body = LinesOf(Len(call.arg.pts), call.arg.precision)
  ELSE call.val.n = 0 /\ call.val.err # "" /\ call.val.sent = <<>>

\* What it says of a batch that is encoded into an io.Writer.  The lines
\* have the timestamp in nanoseconds, the precision of no precision.
BatchEncoded ==
  IF \A i \in 1..Len(call.arg.pts) : Encodable(call.arg.pts[i])
  THEN call.val.err = "" /\ Written = LinesOf(Len(call.arg.pts), "")
  ELSE call.val.err \notin {"", "panic"}

\* C23: a batch of points is written as the lines of the points in the
\* order of the arguments, each ended by its newline and nothing between
\* them; when a point of the batch cannot be encoded, the caller gets the
\* error, and Writer.WriteBatch returns n = 0 and sends no request.
C23_Batch ==
  /\ call.op = "WriteBatch" => BatchWritten
  /\ call.op = "writer.WritePoint" => BatchEncoded

\* Writer.WriteBatch does so.
C23_WriteBatch == call.op = "WriteBatch" => BatchWritten

----------------------------------------------------------------------------
\* The precisions that name a unit of time: the constants of Precision,
\* and no precision, which is nanoseconds.
Units == {"", "ns", "u", "ms", "s", "m", "h"}

\* The lines of the first k points of the last call, the timestamp of each
\* point that has a time in the unit that the precision q names.
RECURSIVE Stamped(_, _)
Stamped(k, q) ==
  IF k = 0 THEN <<>>
  ELSE LET pt == call.arg.pts[k]
           bare == EncodeOp(<<>>, [pt EXCEPT !.Time = ZeroInstant], "", call.arg.orders[k]).w
       IN Stamped(k - 1, q)
          \o (IF IsZero(pt.Time) THEN bare
              ELSE SubSeq(bare, 1, Len(bare) - 1) \o <<" ">>
                   \o Quotient(UnixNano(pt.Time), StatedFactor(q)) \o <<"\n">>)

\* The last call is a call of a Writer that has sent a request.
Requested == call.op \in {"WritePoint", "WriteBatch"} /\ call.val.sent # <<>>

\* C25 as it is stated: whatever the Precision of the Writer, the
\* timestamps of the body are in the unit that the precision parameter of
\* the request names.
C25_Original ==
  Requested =>
    \/ \A i \in 1..Len(call.arg.pts) : IsZero(call.arg.pts[i].Time)
    \/ /\ call.val.sent[1].precision \in Units
       /\ call.val.sent[1].body = Stamped(Len(call.arg.pts), call.val.sent[1].precision)

\* C25: the request declares the Precision of the Writer, no parameter for
\* the empty one; when that is one of the constants of Precision or empty,
\* the timestamps of the body are in its unit, and for any other Precision
\* they are in nanoseconds.
C25_PrecisionAgrees ==
  Requested =>
    /\ call.val.sent[1].precision = call.arg.precision
    /\ call.val.sent[1].body =
         Stamped(Len(call.arg.pts),
                 IF call.arg.precision \in Units THEN call.val.sent[1].precision ELSE "")

C25_Witness ==
  /\ call.op = "WritePoint"
  /\ call.arg.precision = "s"
  /\ call.val.sent = <<[precision |-> "s",
                        body |-> <<"c", " ", "v", "=", "5", " ", "7", "3", "2", "2", "\n">>]>>

----------------------------------------------------------------------------
(* C24: the iteration helpers and Querier.Execute                          *)

\* A helper has been called.
HelperCalled == call.op \in {"EachResult", "EachSeries", "EachRow"}

\* The helpers by themselves: the callback is called with every item a
\* Next* call returned and right after it, nothing is called after a Next*
\* or a callback that did not return nil, and io.EOF and ErrStop end the
\* helper with nil, any other error with that error.
C24_Helpers ==
  HelperCalled =>
    LET l == call.log
        n == Len(l)
    IN /\ n > 0
       /\ l[1].e = "next"
       /\ \A i \in 1..n :
            l[i].e = "fn" <=> (i > 1 /\ l[i - 1].e = "next" /\ l[i - 1].r = "")
       /\ \A i \in 2..n : l[i].e = "fn" => l[i].item = l[i - 1].item
       /\ \A i \in 1..(n - 1) : l[i].r = ""
       /\ l[n].r # ""
       /\ ret.err = (IF l[n].r \in {"EOF", "ErrStop"} THEN "" ELSE l[n].r)

\* The statements of a body that failed: the messages of its Results.
Failures(docs) ==
  LET rs == Flatten(docs)
  IN [i \in {i \in 1..Len(rs) : rs[i].Err # ""} |-> rs[i].Err]

\* Execute has read a whole JSON response: the last Result is not partial.
Executed ==
  /\ call.op = "Execute"
  /\ call.status = "2xx"
  /\ ret.err \notin {"Do", "ReadError", "ErrUnknownFormat"}
  /\ Flatten(call.body) # <<>> => ~Last(Flatten(call.body)).Partial

\* C24: with helpers that call the callback once for each item in order,
\* return nil at io.EOF and at ErrStop, and return any other error
\* unchanged, Querier.Execute returns nil when no statement of the response
\* failed and the ErrResult with the server's message when one did.
C24_Execute ==
  Executed =>
    IF DOMAIN Failures(call.body) = {}
    THEN ret.err = ""
    ELSE /\ ret.err = "ErrResult"
         /\ \E i \in DOMAIN Failures(call.body) : ret.msg = Failures(call.body)[i]

\* A failed Result that comes right after a partial Result.
FailedContinuation(docs) ==
  LET rs == Flatten(docs)
  IN \E i \in 2..Len(rs) : rs[i].Err # "" /\ rs[i - 1].Partial

\* Execute on the responses in which no failed Result continues a partial
\* one.
C24_ExecuteNoContinuation ==
  (Executed /\ ~FailedContinuation(call.body)) => C24_Execute

\* A callback stopped a helper after an item, and Execute returned the
\* message of the server.
C24_Stopped ==
  /\ HelperCalled
  /\ Len(call.log) > 2
  /\ Last(call.log).r = "ErrStop"

C24_Reported ==
  /\ Executed
  /\ ret.err = "ErrResult"
  /\ Len(Flatten(call.body)) > 1

----------------------------------------------------------------------------
(* C26: Encode by several callers                                          *)

\* Every caller's Encode has returned.
AllDone == call.pts # <<>> /\ \A i \in 1..Len(call.pts) : call.done[i]

\* C26: when several callers run Encode at the same time on independent
\* Points, each into its own io.Writer, then under any interleaving of
\* their writes every io.Writer ends up holding exactly what Encode writes
\* for its own Point, every caller gets the error of its own Point, and no
\* Point is modified.
C26_IndependentCallers ==
  /\ call.pts = call.arg
  /\ AllDone =>
       \A i \in 1..Len(call.pts) :
         LET o == EncodeOp(<<>>, call.arg[i], call.precision, call.orders[i])
         IN call.sinks[i] = o.w /\ call.errs[i] = o.err

\* Two callers with different Points have written their lines, one writing
\* while the other was in the middle of its line.
C26_Witness ==
  /\ AllDone
  /\ call.mixed
  /\ \A i \in 1..Len(call.pts) : call.errs[i] = ""
  /\ call.arg[1] # call.arg[2]
  /\ call.sinks[1] # call.sinks[2]
  /\ Len(call.arg[1].Tags) > 0

----------------------------------------------------------------------------
(* C27: NextSeries after a partial series                                  *)

\* The series entries the ResultSet r has before it, in the order of the
\* stream: the rest of its series array and, while the result is partial
\* and attached to the cursor, the entries of the Results that continue it.
Ahead(r) ==
  LET RECURSIVE Continued(_)
      Continued(p) ==
        IF p = <<>> \/ Head(p).Err # "" THEN <<>>
        ELSE Head(p).Series \o (IF Head(p).Partial THEN Continued(Tail(p)) ELSE <<>>)
  IN SubSeq(r.Series, r.index + 1, Len(r.Series))
     \o (IF r.Partial /\ r.cur THEN Continued(Pending) ELSE <<>>)

\* NextSeries from the state it is called in: when the series it returned
\* before is partial, a NextSeries that returns a series returns the entry
\* that follows the end of the continuation chain (the partial entries that
\* directly follow and the first entry that is not partial), across as many
\* documents as needed; when the series is complete it returns the entry
\* that follows.
C27_Step ==
  (ret'.op = "NextSeries" /\ ret'.err = "" /\ sets[ret'.k].series) =>
     LET r == sets[ret'.k]
         a == Ahead(r)
         n == IF Last(r.held).partial THEN ChainLen(a) ELSE 0
     IN /\ n + 1 <= Len(a)
        /\ Last(sets'[ret'.k].held).chunk = a[n + 1]
        /\ ret'.val = a[n + 1].Name
        /\ ret'.val # Last(r.held).name

C27_AfterPartialSeries == [][C27_Step]_vars

\* C27: after NextSeries returned a partial series entry, whatever rows the
\* caller has read from it, the next NextSeries that returns a series
\* returns the entry that follows the end of the continuation chain of that
\* series, and no continuation chunk is returned as a new Series: the
\* series NextSeries returns on a ResultSet are consecutive series of the
\* response (a series entry is named by the number of series that end
\* before it in the stream).
C27_NextStep ==
  (ret'.op = "NextSeries" /\ ret'.err = "" /\ sets[ret'.k].series) =>
     ret'.val = Last(sets[ret'.k].held).name + 1

C27_NextInStream == [][C27_NextStep]_vars

\* NextSeries has returned the second series of a response after the first
\* was left partial with no row read, its continuation in a later document.
C27_Witness ==
  /\ ret.op = "NextSeries"
  /\ ret.err = ""
  /\ Len(sets[ret.k].held) >= 2
  /\ LET s == sets[ret.k].held[Len(sets[ret.k].held) - 1]
     IN s.partial /\ s.nret = 0 /\ s.chunk.Partial
  /\ Last(sets[ret.k].held).name = 2
  /\ stream = <<>>
  /\ nsets = 1

----------------------------------------------------------------------------
(* C28: the queue of Results is first in, first out                        *)

\* q is what is left of p when Results are taken from its front.
IsSuffix(q, p) == Len(q) <= Len(p) /\ SubSeq(p, Len(p) - Len(q) + 1, Len(p)) = q

\* The call of a step took Results from the front of those not taken yet,
\* and left the others as they were and in their order.
FromTheFront == IsSuffix(PendingOf(WorldNext), Pending)

\* C28: Results are consumed first in, first out and none is lost: a call
\* that needs another Result takes the oldest one buffered and decodes a
\* further document only when none is buffered, so no Result of a document
\* that carries several is overwritten or skipped by a later decode.
C28_Step ==
  ret'.op \in {"NextSet", "NextSeries", "NextRow"} => FromTheFront

C28_FirstInFirstOut == [][C28_Step]_vars

\* The same of NextSet and NextSeries alone.
C28_SetAndSeriesStep ==
  ret'.op \in {"NextSet", "NextSeries"} => FromTheFront

C28_SetAndSeries == [][C28_SetAndSeriesStep]_vars

----------------------------------------------------------------------------
(* C29: a document whose results array is empty                            *)

\* C29: a document with an empty results array is passed over: NextSet,
\* NextSeries and NextRow decode on until a Result is there or the stream
\* ends, and none of them faults on such a document.
C29_NoFault == ret.err # "panic"

\* The same of NextSet and NextSeries alone, which also take the Result
\* that follows the empty documents.
C29_SetAndSeriesStep ==
  /\ ret'.op \in {"NextSet", "NextSeries"} => ret'.err # "panic"
  /\ (ret'.op = "NextSet" /\ buf = <<>> /\ stream # <<>> /\ Head(stream) = <<>>
        /\ cur.kind = "nil" /\ Pending # <<>> /\ Pending[1].Err = "") =>
       ret'.err = "" /\ NewSetOf(Pending[1])

C29_SetAndSeries == [][C29_SetAndSeriesStep]_vars

----------------------------------------------------------------------------
(* C30: no failure of the server is dropped                                *)

\* The Results the call of a step removed from the queue.
Removed == SubSeq(Pending, 1, Len(Pending) - Len(PendingOf(WorldNext)))

\* The call of a step returned the error of every failed Result it removed.
FailuresReturned ==
  FromTheFront =>
    \A i \in 1..Len(Removed) :
      Removed[i].Err # "" => (ret'.err = "ErrResult" /\ ret'.msg = Removed[i].Err)

\* C30: no failure the server reports is dropped silently: every Result
\* with a non-empty error string that a Next* call removes from the queue
\* makes that call return the ErrResult with its message, the Results that
\* NextSet removes while it drains the continuation chain of a partial
\* current result included.
C30_Step ==
  ret'.op \in {"NextSet", "NextSeries", "NextRow"} => FailuresReturned

C30_NoFailureDropped == [][C30_Step]_vars

\* The same of NextSeries, and of a NextSet that has no partial current
\* result to drain.
C30_NoDrainStep ==
  (\/ ret'.op = "NextSeries"
   \/ ret'.op = "NextSet" /\ ~(cur.kind # "nil" /\ CurPartial(World))) => FailuresReturned

C30_NoDrain == [][C30_NoDrainStep]_vars

----------------------------------------------------------------------------
(* C31: escaping by successive replacement                                 *)

\* in with a backslash put before every character of set, every other
\* character copied.
RECURSIVE PerCharacter(_, _)
PerCharacter(in, set) ==
  IF in = <<>> THEN <<>>
  ELSE (IF Head(in) \in set THEN <<"\\", Head(in)>> ELSE <<Head(in)>>)
       \o PerCharacter(Tail(in), set)

\* C31: for each of the three tables, escaping by successive whole-string
\* replacement gives what escaping every character of the input once
\* gives: a measurement gets a backslash before each ',' and ' ', a tag key
\* or value before each ',', ' ' and '=', a string field value before each
\* '\' and '"' and is wrapped in double quotes; no backslash a replacement
\* puts in is escaped again, and every other character is copied.
C31_EscapeOnce ==
  /\ call.op = "escapeMeasurement" => call.val = PerCharacter(call.arg, {",", " "})
  /\ call.op = "escapeTag" => call.val = PerCharacter(call.arg, {",", " ", "="})
  /\ call.op = "escapeString" => call.val = PerCharacter(call.arg, {"\\", "\""})
  /\ call.op = "formatValue" =>
       call.val = <<"\"">> \o PerCharacter(call.arg, {"\\", "\""}) \o <<"\"">>

\* A string field value with a quote before a backslash has been formatted.
C31_Witness ==
  /\ call.op = "formatValue"
  /\ call.arg = <<"\"", "\\", "a">>
  /\ Len(call.val) = 7

----------------------------------------------------------------------------
(* C32: the end of the stream, of a ResultSet and of a Series is stable    *)

\* The handles the caller keeps are the newest ones: a NextSet that returns
\* a ResultSet, or a NextSeries that returns a Series, moves the older
\* handles down by one when the oldest is dropped.
SetShift ==
  IF ret'.tick # ret.tick /\ ret'.op = "NextSet" /\ ret'.err = "" /\ Len(sets) = HeldSets
  THEN 1 ELSE 0

SeriesShift(k) ==
  IF ret'.tick # ret.tick /\ ret'.op = "NextSeries" /\ ret'.k = k /\ ret'.err = ""
     /\ Len(sets[k].held) = HeldSeries
  THEN 1 ELSE 0

\* The handle is at its end: a call on it returns io.EOF and changes
\* nothing.
SetsEnded(w) == NextSetOp(Leave(w)) = Fail(Leave(w), "EOF")
SeriesEnded(w, k) == NextSeriesOp(w, k) = Fail(w, "EOF")
RowsEnded(w, k, j) == NextRowOp(w, k, j) = Fail(w, "EOF")

\* The call that has just returned io.EOF has left its handle at its end.
C32_Returned ==
  (ret.err = "EOF" /\ ret.k <= Len(sets)) =>
    CASE ret.op = "NextSet" -> SetsEnded(World)
      [] ret.op = "NextSeries" -> SeriesEnded(World, ret.k)
      [] OTHER -> ret.j <= Len(sets[ret.k].held) => RowsEnded(World, ret.k, ret.j)

\* No call of the caller, on any handle, takes a handle out of its end.
C32_Kept ==
  ~Unread =>
    /\ SetsEnded(World) => SetsEnded(WorldNext)
    /\ \A k \in 1..Len(sets) :
         (k > SetShift /\ SeriesEnded(World, k)) => SeriesEnded(WorldNext, k - SetShift)
    /\ \A k \in 1..Len(sets) : \A j \in 1..Len(sets[k].held) :
         (k > SetShift /\ j > SeriesShift(k) /\ RowsEnded(World, k, j)) =>
           RowsEnded(WorldNext, k - SetShift, j - SeriesShift(k))

\* C32: end-of-stream is stable at every level: once NextSet has returned
\* io.EOF every later NextSet returns io.EOF, once NextSeries of a ResultSet
\* has returned io.EOF every later NextSeries on it returns io.EOF, and once
\* NextRow of a Series has returned io.EOF every later NextRow on it
\* returns io.EOF, whatever the calls in between; so no item is produced
\* after an io.EOF.
C32_EndIsStable == [](C32_Returned) /\ [][C32_Kept]_vars

\* NextRow has returned io.EOF on a series that NextSeries has left since,
\* of a ResultSet that NextSet has left since, rows read from it before.
C32_Witness ==
  /\ ret.op = "NextRow"
  /\ ret.err = "EOF"
  /\ ret.k < Len(sets)
  /\ ret.j < Len(sets[ret.k].held)
  /\ sets[ret.k].held[ret.j].nret > 0
  /\ sets[ret.k].left

----------------------------------------------------------------------------
(* C33: a call that fails changes nothing                                  *)

\* The errors a call returns, the end of the handle apart.
Errors == {"ErrResult", "Truncated", "UEOF"}

\* C33: a NextSeries or NextRow call that returns an error (ErrResult,
\* ErrSeriesTruncated, io.ErrUnexpectedEOF) leaves the ResultSet as it was
\* before the call: the same series array, index, partial flag and active
\* series, the series it holds with their buffered rows and counts; and the
\* same call made again returns the same error.
C33_Step ==
  (ret'.op \in {"NextSeries", "NextRow"} /\ ret'.err \in Errors) =>
     /\ Position(sets'[ret'.k]) = Position(sets[ret'.k])
     /\ sets'[ret'.k].series = sets[ret'.k].series
     /\ sets'[ret'.k].held = sets[ret'.k].held
     /\ ret'.err = (IF ret'.op = "NextSeries"
                    THEN NextSeriesOp(WorldNext, ret'.k).err
                    ELSE NextRowOp(WorldNext, ret'.k, ret'.j).err)

C33_FailedCallChangesNothing == [][C33_Step]_vars

\* What a failed call does keep: the rows every series of the ResultSet
\* has buffered, and its count.
C33_BufferedStep ==
  (ret'.op \in {"NextSeries", "NextRow"} /\ ret'.err \in Errors) =>
     \A j \in 1..Len(sets[ret'.k].held) :
        /\ sets'[ret'.k].held[j].values = sets[ret'.k].held[j].values
        /\ sets'[ret'.k].held[j].sz = sets[ret'.k].held[j].sz

C33_BufferedKept == [][C33_BufferedStep]_vars

----------------------------------------------------------------------------
(* C34: what Writer.Write returns                                          *)

\* The server took the data of the last call, in full or in part.
Took == call.arg.status \in {"2xx", "4xx partial write"}

\* What Write returns for the data and the answer of the server.
Returned ==
  IF call.arg.data = <<>> THEN call.val.n = 0 /\ call.val.err = "" /\ call.val.sent = <<>>
  ELSE /\ call.val.n = Len(call.arg.data) <=> Took
       /\ Took => call.val.err = (IF call.arg.status = "2xx" THEN "" ELSE "ErrPartialWrite")
       /\ ~Took => call.val.n = 0 /\ call.val.err # ""

----------------------------------------------------------------------------
(* C35: the options of a call stay with the call                           *)

\* C35: per-call query options never leak into the Querier: after any
\* sequence of Select and Execute calls with options (Param, Params) the
\* QueryOptions the Querier holds, the contents of its Params map included,
\* are what they were before, no call faults, and a call made without
\* options sends the parameters of the Querier only, none of an earlier
\* call.
C35_NoLeak ==
  /\ call.Params = call.was
  /\ call.err # "panic"
  /\ (call.op # "" /\ call.opts = <<>>) =>
       call.sent = (IF call.was.nil THEN <<>> ELSE call.was.m)

\* A call without options, after a call whose options named a parameter,
\* has sent no parameter of that name.
C35_Witness ==
  /\ call.n = 2
  /\ call.opts = <<>>
  /\ \E key \in call.given : key \notin DOMAIN call.sent

============================================================================
